---- MODULE Spec2Model ----
(***************************************************************************)
(* Truth-Lense: the heuristic deepfake detectors (image, audio, video) and *)
(* the websocket host that runs them in background workers.                *)
(*                                                                         *)
(* Number representation.  The detectors compute with floats; the model    *)
(* computes with exact integers and rationals:                             *)
(*   - suspicion / green scores: thousandths (0.18 is 180);                *)
(*   - confidences and progress values: rationals [num, den], confidences  *)
(*     in thousandths of a percent point (92 is [num |-> 92000, den |-> 1])*)
(*     and progress values in percent points;                              *)
(*   - features: the unit of each is stated where its record is defined.   *)
(***************************************************************************)
EXTENDS Integers, Sequences, FiniteSets, TLC

VARIABLES
    call,               \* the detection call just made: modality, input, sink
    result,             \* the record that call returned
    written,            \* values assigned to progress_dict[session_id], in order
    emitted,            \* payloads of the progress_update events delivered, in order
    sample_rate,        \* LightweightAudioDetector.sample_rate (the only detector field)
    memo,               \* an earlier call and what it returned
    analysis_progress,  \* main.analysis_progress: session id -> progress
    workers,            \* per process_media thread: its position and its locals
    disk,               \* the temporary files that exist
    rooms,              \* per session id: the events emitted into its room, in order
    clients,            \* per client: "new", "connected" or "gone"
    handlers,           \* per client: the position of the handler running for it
    requests,           \* the number of client requests handled so far
    cancelled,          \* per thread: the length of its room when cancel_analysis
                        \* was handled while it ran (0: never)
    key_errors,         \* who raised KeyError deleting an absent progress entry
    http,               \* the HTTP request handled last and the response to it
    users,              \* the documents of the MongoDB collection "users"
    held,               \* what the HTTP clients hold: the credentials they
                        \* signed up with and the tokens they were given
    signups,            \* per signup request in progress: its position in
                        \* signup, its input, what it found and its response
    indexes             \* the fields of "users" that carry a unique index

engineVars == <<call, result, written, emitted, sample_rate, memo>>
hostVars == <<analysis_progress, workers, disk, rooms, clients, handlers, requests,
              cancelled, key_errors>>
apiVars == <<http, users, held, signups, indexes>>
vars == <<call, result, written, emitted, sample_rate, memo,
          analysis_progress, workers, disk, rooms, clients, handlers, requests,
          cancelled, key_errors, http, users, held, signups, indexes>>

----------------------------------------------------------------------------
(* Generic helpers *)

Min(a, b) == IF a <= b THEN a ELSE b
Max(a, b) == IF a >= b THEN a ELSE b
Abs(a) == IF a >= 0 THEN a ELSE 0 - a

\* Body applied to the value of v: v is evaluated once, however often Body
\* uses its argument
Bind(v, Body(_)) == CHOOSE r \in {Body(b) : b \in {v}} : TRUE

RECURSIVE SumSeq(_)
SumSeq(s) == IF s = <<>> THEN 0 ELSE Head(s) + SumSeq(Tail(s))

\* a rational number num/den, den > 0
Rat(n, d) == [num |-> n, den |-> d]
RatLeq(a, b) == a.num * b.den <= b.num * a.den
RatLess(a, b) == a.num * b.den < b.num * a.den
RatEq(a, b) == a.num * b.den = b.num * a.den
RatIsInt(a) == a.num % a.den = 0

\* n * n * variance of the values of a sequence (an integer):
\* var(xs) < c  iff  VarTimesN2(xs) < c * n * n
VarTimesN2(xs) ==
    Len(xs) * SumSeq([i \in 1..Len(xs) |-> xs[i] * xs[i]]) - SumSeq(xs) * SumSeq(xs)

\* dict.get(key, default) on a feature dict that is either complete or {}:
\* the dict is a sequence holding at most one record
Get(features, key, default) ==
    IF features = <<>> THEN default ELSE features[1][key]

\* the three ways a call is given a progress sink: "none" (session_id or
\* progress_dict is None), "ok" (emit delivers), "raises" (emit raises, e.g. no
\* request context or no socket server)
SinkModes == {"none", "ok", "raises"}

Timestamp == "ISO-8601"

\* one anomaly entry; the description is kept only where the code varies it
Anomaly(type, severity) == [type |-> type, severity |-> severity]

\* n entries of one anomaly
Repeat(a, n) == [i \in 1..n |-> a]

\* the payload of one progress_update event
Update(progress, message) == [progress |-> progress, message |-> message]

Point(value, payload) == [value |-> value, payload |-> payload]

\* what the progress checkpoints of a call leave behind.  `points` are the
\* checkpoints the call passes, in order, each [value, payload].  Every checkpoint
\* first assigns progress_dict[session_id] and then emits; with sink "raises" the
\* first emit raises, so only the first assignment happens.
Checkpoints(points, sink) ==
    IF sink = "none" THEN [written |-> <<>>, emitted |-> <<>>, raised |-> FALSE]
    ELSE IF sink = "raises" /\ points # <<>>
         THEN [written |-> <<points[1].value>>, emitted |-> <<>>, raised |-> TRUE]
    ELSE [written |-> [i \in 1..Len(points) |-> points[i].value],
          emitted |-> [i \in 1..Len(points) |-> points[i].payload],
          raised |-> FALSE]

\* what a call hands back: the record returned and the traces of its checkpoints
Outcome(res, cp) == [result |-> res, written |-> cp.written, emitted |-> cp.emitted]

----------------------------------------------------------------------------
(* Image detector: image_model.py *)

\* _green_indicators, line 196: min(green, 0.8)
GreenCapBad(green) == green
GreenCap(green) == Min(green, 800)

\* _green_indicators: (green_score, notes); green in thousandths.
\* features: edge_density in thousandths, texture_variance, color_uniformity and
\* brightness_std in units, freq_variance in tenths, width/height in pixels;
\* compression values in thousandths; face_issues is len(face_issues).
green_indicators(features, avg_compression, compression_var, face_issues) ==
    LET edge_density == Get(features, "edge_density", 0)
        texture_var == Get(features, "texture_variance", 0)
        color_uni == Get(features, "color_uniformity", 0)
        freq_var == Get(features, "freq_variance", 0)
        b_std == Get(features, "brightness_std", 0)
        w == Max(1, Get(features, "width", 1))
        h == Max(1, Get(features, "height", 1))
        g1 == 40 <= edge_density /\ edge_density <= 250
        g2 == texture_var >= 250
        g3 == 15 <= color_uni /\ color_uni <= 60
        g4 == 15 <= freq_var /\ freq_var <= 200
        g5 == b_std >= 20
        g6 == 30 <= avg_compression /\ avg_compression <= 200 /\ compression_var < 60
        g7 == w * h >= 640 * 480
        g8 == face_issues = 0
        green == (IF g1 THEN 250 ELSE 0) + (IF g2 THEN 250 ELSE 0)
                 + (IF g3 THEN 150 ELSE 0) + (IF g4 THEN 150 ELSE 0)
                 + (IF g5 THEN 100 ELSE 0) + (IF g6 THEN 100 ELSE 0)
                 + (IF g7 THEN 50 ELSE 0) + (IF g8 THEN 50 ELSE 0)
    IN  [green |-> GreenCap(green),
         notes |-> (IF g1 THEN <<"Edge density in natural range">> ELSE <<>>)
                   \o (IF g2 THEN <<"Healthy texture variance">> ELSE <<>>)
                   \o (IF g3 THEN <<"Natural color variability">> ELSE <<>>)
                   \o (IF g4 THEN <<"Balanced frequency spectrum">> ELSE <<>>)
                   \o (IF g5 THEN <<"Adequate contrast/brightness variation">> ELSE <<>>)
                   \o (IF g6 THEN <<"Compression looks consistent with camera/JPEG">>
                       ELSE <<>>)
                   \o (IF g7 THEN <<"Sufficient resolution">> ELSE <<>>)
                   \o (IF g8 THEN <<"No facial inconsistencies detected">> ELSE <<>>)]

\* _analyze_compression_artifacts, lines 82-83: range(0, n - block_size,
\* block_size), the starts of the blocks visited along a side of n pixels
BlockStarts(n, block_size) ==
    {k * block_size : k \in {j \in 0..(n \div block_size) :
                                j * block_size < n - block_size}}

\* the high-frequency ratio of the block at (y, x), in thousandths; -1 when
\* the block's total energy is 0.  image.ratios is a pattern over the blocks.
BlockRatio(image, y, x) ==
    image.ratios[((y \div 8 + x \div 8) % Len(image.ratios)) + 1]

\* _analyze_compression_artifacts, lines 78-98, on a grayscale image of
\* image.h by image.w pixels: the blocks visited, and the mean and variance of
\* the ratios collected (<<>> is nan: np.mean and np.var of an empty list)
analyze_compression_artifacts(image) ==
    LET block_size == 8
        ys == BlockStarts(image.h, block_size)
        xs == BlockStarts(image.w, block_size)
        nx == Cardinality(xs)
        all == [k \in 1..(Cardinality(ys) * nx) |->
                   BlockRatio(image, ((k - 1) \div nx) * block_size,
                                     ((k - 1) % nx) * block_size)]
    IN  Bind(SelectSeq(all, LAMBDA r : r >= 0), LAMBDA compression_scores :
             [visited |-> ys \X xs,
              scores |-> compression_scores,
              avg_compression |->
                 IF compression_scores = <<>> THEN <<>>
                 ELSE <<Rat(SumSeq(compression_scores), Len(compression_scores))>>,
              compression_var |->
                 IF compression_scores = <<>> THEN <<>>
                 ELSE <<Rat(VarTimesN2(compression_scores),
                            Len(compression_scores) * Len(compression_scores))>>])

\* detect, line 274: 0.08 per face issue
ImageFaceWeightBad(face_issues) == 0 - 80 * face_issues
ImageFaceWeight(face_issues) == 80 * face_issues

\* detect, lines 224-281: the six suspicion rules; raw score in thousandths
ImageRules(features, avg_compression, compression_var, face_issues) ==
    LET c1 == Get(features, "edge_density", 150) < 30
        c2 == Get(features, "texture_variance", 500) < 80
        c3 == Get(features, "color_uniformity", 30) < 10
        c4 == Get(features, "freq_variance", 50) < 10
        c5 == avg_compression > 220 \/ compression_var > 120
    IN  [score |-> (IF c1 THEN 180 ELSE 0) + (IF c2 THEN 150 ELSE 0)
                   + (IF c3 THEN 100 ELSE 0) + (IF c4 THEN 100 ELSE 0)
                   + (IF c5 THEN 120 ELSE 0) + ImageFaceWeight(face_issues),
         anomalies |-> (IF c1 THEN <<Anomaly("Edge smoothing", "high")>> ELSE <<>>)
                       \o (IF c2 THEN <<Anomaly("Low texture variance", "medium")>>
                           ELSE <<>>)
                       \o (IF c3 THEN <<Anomaly("Color uniformity", "medium")>> ELSE <<>>)
                       \o (IF c4 THEN <<Anomaly("Frequency anomaly", "medium")>> ELSE <<>>)
                       \o (IF c5 THEN <<Anomaly("Compression artifacts", "high")>>
                           ELSE <<>>)
                       \o Repeat(Anomaly("Facial inconsistency", "high"), face_issues)]

\* detect, lines 323-334: the record returned when the try block raises
ImageFallback(error) ==
    [isDeepfake |-> FALSE, confidence |-> Rat(50000, 1), processingTime |-> 100,
     anomalies |-> <<>>, mediaType |-> "image", timestamp |-> Timestamp,
     modelUsed |-> "Error", error |-> error]

\* _analyze_compression_artifacts, lines 100-102: the values returned on failure
CompressionDefault == [avg |-> 100, var |-> 10]

\* the progress checkpoints of the image detector
ImagePoints ==
    << Point(Rat(20, 1), Update(Rat(20, 1), "Extracting image features...")),
       Point(Rat(50, 1), Update(Rat(50, 1), "Analyzing compression artifacts...")),
       Point(Rat(80, 1), Update(Rat(80, 1), "Checking for face inconsistencies...")),
       Point(Rat(100, 1), Update(Rat(100, 1), "Analysis complete")) >>

\* detect, line 284: max(0.0, suspicious_score - 0.5 * green_score); exact,
\* green being a multiple of 0.05
AdjustedSuspicionBad(suspicious_score, green_score) == Max(0, suspicious_score)
AdjustedSuspicion(suspicious_score, green_score) ==
    Max(0, suspicious_score - green_score \div 2)

\* detect, lines 290-296: the confidence, in thousandths of a point
ImageConfidenceBad(is_deepfake, adjusted_suspicion, green_score) ==
    IF is_deepfake
    THEN Min(55000 + adjusted_suspicion * 45, 95000)
    ELSE Min(90000, 60000 + 25 * green_score - 10 * adjusted_suspicion)
ImageConfidence(is_deepfake, adjusted_suspicion, green_score) ==
    IF is_deepfake
    THEN Min(55000 + adjusted_suspicion * 45, 92000)
    ELSE Min(90000, 60000 + 25 * green_score - 10 * adjusted_suspicion)

\* detect, line 288: is_deepfake = adjusted_suspicion > 0.8
ImageIsDeepfakeBad(adjusted_suspicion) == adjusted_suspicion > 500
ImageIsDeepfake(adjusted_suspicion) == adjusted_suspicion > 800

\* detect, lines 283-321: verdict, confidence and the record returned, from
\* the rules' outcome and the green indicators
ImageVerdict(rules, gi) ==
    LET adjusted_suspicion == AdjustedSuspicion(rules.score, gi.green)
        is_deepfake == ImageIsDeepfake(adjusted_suspicion)
        confidence == ImageConfidence(is_deepfake, adjusted_suspicion, gi.green)
    IN  [isDeepfake |-> is_deepfake, confidence |-> Rat(confidence, 1),
         processingTime |-> 500,
         anomalies |-> rules.anomalies
                       \o [i \in 1..Len(gi.notes) |->
                              [type |-> "Green indicator", severity |-> "info",
                               description |-> gi.notes[i]]],
         mediaType |-> "image", timestamp |-> Timestamp,
         modelUsed |-> "Lightweight CV Analysis v1.1 (tuned)",
         features |-> [suspicious_score_raw |-> rules.score,
                       green_score |-> gi.green,
                       suspicious_score |-> adjusted_suspicion]]

\* LightweightImageDetector.detect.  input.features is <<>> when
\* _extract_traditional_features returned {}, input.compression is <<>> when
\* _analyze_compression_artifacts failed, input.faces is <<>> when
\* _detect_face_inconsistencies failed (each helper catches its own exception);
\* an undecodable file makes all three fail.
ImageDetect(input, sink) ==
    LET cp == Checkpoints(ImagePoints, sink)
        comp == IF input.compression = <<>> THEN CompressionDefault
                ELSE input.compression[1]
        face_issues == IF input.faces = <<>> THEN 0 ELSE input.faces[1]
    IN  IF sink = "raises"
        THEN Outcome(ImageFallback("emit failed"), cp)
        ELSE Bind(ImageRules(input.features, comp.avg, comp.var, face_issues),
                  LAMBDA rules :
             Bind(green_indicators(input.features, comp.avg, comp.var, face_issues),
                  LAMBDA gi : Outcome(ImageVerdict(rules, gi), cp)))

\* analyze_image
analyze_image(input, sink) == ImageDetect(input, sink)

----------------------------------------------------------------------------
(* Audio detector: audio_model.py *)

\* the element of a pattern at 0-based position k: a pattern lists the first
\* values of a series and its last value repeats for the rest of the series
At(pattern, k) == pattern[Min(k + 1, Len(pattern))]

\* _analyze_voice_naturalness, line 113: the window starts range(0, len - seg, seg)
WindowStarts(n_samples, segment_length) ==
    {k * segment_length : k \in {j \in 0..(n_samples \div segment_length) :
                                    j * segment_length < n_samples - segment_length}}

\* lines 127-140: the pitch issue for the estimates collected
PitchIssue(pitch_estimates) ==
    LET n == Len(pitch_estimates)
    IN  IF n > 1
        THEN Bind(VarTimesN2(pitch_estimates), LAMBDA v :
                  IF v < 100 * n * n
                  THEN <<Anomaly("Unnatural pitch consistency", "high")>>
                  ELSE IF v > 10000 * n * n
                       THEN <<Anomaly("Pitch inconsistency", "medium")>>
                       ELSE <<>>)
        ELSE <<>>

\* _analyze_voice_naturalness: the issues found, in order.  voice is the signal
\* as the three checks see it: silence_segments (rising transitions of the
\* silence mask), peak_idx (pattern of the autocorrelation peak lag of each
\* 2-second window, within sr//400 .. sr//50 - 1), freq_variance and freq_mean
\* (of the per-bin mean magnitudes, thousandths).
analyze_voice_naturalness(voice, n_samples, sr) ==
    LET segment_length == sr * 2
        n_windows == Cardinality(WindowStarts(n_samples, segment_length))
    IN  (IF voice.silence_segments < 2
         THEN <<Anomaly("Unnatural silence pattern", "medium")>> ELSE <<>>)
        \o Bind([k \in 1..n_windows |-> sr \div At(voice.peak_idx, k - 1)], PitchIssue)
        \o (IF voice.freq_variance > voice.freq_mean * 5
            THEN <<Anomaly("Frequency artifacts", "high")>> ELSE <<>>)

\* _detect_synthesis_patterns: the artifacts found, in order.  synth: peaks
\* (autocorrelation peaks at or above 30% of the maximum), avg_variance and
\* dynamic_range in thousandths.
detect_synthesis_patterns(synth) ==
    (IF synth.peaks > 20 THEN <<Anomaly("Repetitive patterns", "high")>> ELSE <<>>)
    \o (IF synth.avg_variance < 10
        THEN <<Anomaly("Spectral consistency", "medium")>> ELSE <<>>)
    \o (IF synth.dynamic_range < 100
        THEN <<Anomaly("Limited dynamic range", "medium")>> ELSE <<>>)

\* detect, lines 243-293: the four feature rules, then 0.1 per voice issue and
\* 0.15 per synthesis artifact; score in thousandths.  features: zcr_std and
\* rms_std in thousandths, spectral_centroid_std and mfcc_0_std in units.
AudioRules(features, voice_issues, synthesis_artifacts) ==
    LET c1 == Get(features, "zcr_std", 10) < 5
        c2 == Get(features, "rms_std", 100) < 50
        c3 == Get(features, "spectral_centroid_std", 500) < 200
        c4 == Get(features, "mfcc_0_std", 10) < 5
    IN  [score |-> (IF c1 THEN 200 ELSE 0) + (IF c2 THEN 150 ELSE 0)
                   + (IF c3 THEN 150 ELSE 0) + (IF c4 THEN 200 ELSE 0)
                   + 100 * Len(voice_issues) + 150 * Len(synthesis_artifacts),
         anomalies |-> (IF c1 THEN <<Anomaly("Unnatural voice consistency", "medium")>>
                        ELSE <<>>)
                       \o (IF c2 THEN <<Anomaly("Volume consistency", "medium")>> ELSE <<>>)
                       \o (IF c3 THEN <<Anomaly("Spectral uniformity", "medium")>>
                           ELSE <<>>)
                       \o (IF c4 THEN <<Anomaly("MFCC uniformity", "high")>> ELSE <<>>)
                       \o voice_issues \o synthesis_artifacts]

\* detect, lines 330-345: the record returned when the try block raises
AudioFallback(error, self_sample_rate) ==
    [isDeepfake |-> FALSE, confidence |-> Rat(50000, 1), processingTime |-> 500,
     anomalies |-> <<>>, mediaType |-> "audio", duration |-> 0,
     sampleRate |-> self_sample_rate, modelUsed |-> "Error",
     inconsistencyCount |-> 0, artifactCount |-> 0,
     timestamp |-> Timestamp, error |-> error]

\* the progress checkpoints of the audio detector; the first is passed before
\* the file is loaded
AudioPoints ==
    << Point(Rat(20, 1), Update(Rat(20, 1), "Loading audio...")),
       Point(Rat(40, 1), Update(Rat(40, 1), "Extracting features...")),
       Point(Rat(70, 1), Update(Rat(70, 1), "Analyzing voice patterns...")),
       Point(Rat(100, 1), Update(Rat(100, 1), "Analysis complete")) >>

\* detect, lines 298-302: the confidence, in thousandths of a point
AudioConfidenceBad(is_deepfake, suspicious_score) ==
    IF is_deepfake THEN Min(65000 + suspicious_score * 30, 95000)
    ELSE Max(75000 - suspicious_score * 30, 60000)
AudioConfidence(is_deepfake, suspicious_score) ==
    IF is_deepfake THEN Min(65000 + suspicious_score * 30, 95000)
    ELSE Max(75000 - suspicious_score * 25, 60000)

\* detect, lines 295-328: verdict, confidence and the record returned
AudioVerdict(rules, n_voice, n_synth, seconds, sr) ==
    LET is_deepfake == rules.score > 500
        confidence == AudioConfidence(is_deepfake, rules.score)
    IN  [isDeepfake |-> is_deepfake, confidence |-> Rat(confidence, 1),
         processingTime |-> 1000, anomalies |-> rules.anomalies,
         mediaType |-> "audio", duration |-> seconds,
         sampleRate |-> sr, modelUsed |-> "Lightweight Signal Processing",
         inconsistencyCount |-> n_voice, artifactCount |-> n_synth,
         timestamp |-> Timestamp,
         features |-> [suspicious_score |-> rules.score]]

\* LightweightAudioDetector.detect.  input.loadable is FALSE when _load_audio
\* returns (None, None): librosa.load raised or the decoded buffer is empty.
\* input.features / voice / synth are <<>> when the helper caught an exception.
AudioDetect(input, sink, self_sample_rate) ==
    LET sr == self_sample_rate
        cp == Checkpoints(IF input.loadable THEN AudioPoints
                          ELSE SubSeq(AudioPoints, 1, 1), sink)
    IN  IF sink = "raises"
        THEN Outcome(AudioFallback("emit failed", self_sample_rate), cp)
        ELSE IF ~input.loadable
        THEN Outcome(AudioFallback("Could not load audio file", self_sample_rate), cp)
        ELSE Bind(IF input.voice = <<>> THEN <<>>
                  ELSE analyze_voice_naturalness(input.voice[1], input.seconds * sr, sr),
                  LAMBDA voice_issues :
             Bind(IF input.synth = <<>> THEN <<>>
                  ELSE detect_synthesis_patterns(input.synth[1]),
                  LAMBDA synthesis_artifacts :
             Bind(AudioRules(input.features, voice_issues, synthesis_artifacts),
                  LAMBDA rules :
                  Outcome(AudioVerdict(rules, Len(voice_issues),
                                       Len(synthesis_artifacts), input.seconds, sr),
                          cp))))

\* analyze_audio
analyze_audio(input, sink, self_sample_rate) == AudioDetect(input, sink, self_sample_rate)

----------------------------------------------------------------------------
(* Video detector: video_model.py *)

\* _extract_key_frames: the indices of the frames kept.  Reads succeed exactly
\* for stream positions below readable_until (a stream whose container
\* announces total_frames frames but whose data ends early).
extract_key_frames(total_frames, readable_until, max_frames_arg) ==
    IF total_frames = 0 THEN <<>>
    ELSE LET frame_interval == Max(1, total_frames \div max_frames_arg)
             n_candidates == (total_frames + frame_interval - 1) \div frame_interval
             Read(i) == i < readable_until
         IN  Bind(SelectSeq([k \in 1..n_candidates |-> (k - 1) * frame_interval], Read),
                  LAMBDA kept : SubSeq(kept, 1, Min(Len(kept), max_frames_arg)))

\* _analyze_single_frame_lightweight, line 107: the frame is suspicious
FrameIsSuspiciousBad(suspicious_score) == suspicious_score >= 400
FrameIsSuspicious(suspicious_score) == suspicious_score > 400

\* _analyze_single_frame_lightweight.  frame: blur_score, color_uniformity,
\* brightness and brightness_std in units, edge_density in thousandths;
\* frame.analysable is FALSE when the analysis raises (the handler at lines
\* 118-120 answers).  score in thousandths, confidence in thousandths of a point.
analyze_single_frame_lightweight(frame) ==
    LET c1 == frame.blur_score < 100
        c2 == frame.edge_density < 80
        c3 == frame.color_uniformity < 15
        c4 == frame.brightness < 50 \/ frame.brightness > 200
        c5 == frame.brightness_std < 30
        suspicious_score == (IF c1 THEN 300 ELSE 0) + (IF c2 THEN 200 ELSE 0)
                            + (IF c3 THEN 200 ELSE 0) + (IF c4 THEN 100 ELSE 0)
                            + (IF c5 THEN 200 ELSE 0)
        is_suspicious == FrameIsSuspicious(suspicious_score)
    IN  IF ~frame.analysable
        THEN [is_suspicious |-> FALSE, confidence |-> 50000, reasons |-> <<>>,
              score |-> 0, failed |-> TRUE]
        ELSE [is_suspicious |-> is_suspicious,
              confidence |-> IF is_suspicious
                             THEN Min(60000 + suspicious_score * 35, 90000)
                             ELSE Max(70000 - suspicious_score * 30, 55000),
              reasons |-> (IF c1 THEN <<"Frame appears over-smoothed">> ELSE <<>>)
                          \o (IF c2 THEN <<"Low edge density detected">> ELSE <<>>)
                          \o (IF c3 THEN <<"Colors appear artificially uniform">>
                              ELSE <<>>)
                          \o (IF c4 THEN <<"Unusual brightness levels">> ELSE <<>>)
                          \o (IF c5 THEN <<"Low brightness variation">> ELSE <<>>),
              score |-> suspicious_score, failed |-> FALSE]

\* the mean absolute grayscale difference of two frames (lines 135-136).  The
\* frames of one video are modelled as one scene under changing light, so the
\* difference of two frames is the difference of their mean brightness.
DiffScore(prev, curr) == Abs(prev.brightness - curr.brightness)

\* _analyze_temporal_consistency; frames is a sequence of frames
TemporalIssueBad(i, diff_score) ==
    IF diff_score > 60
    THEN <<[frame |-> i, type |-> "Sudden change", severity |-> "high"]>>
    ELSE IF diff_score > 0 /\ diff_score < 5
    THEN <<[frame |-> i, type |-> "Static content", severity |-> "medium"]>>
    ELSE <<>>
\* lines 138-153: the inconsistency recorded for frame i and its predecessor
TemporalIssue(i, diff_score) ==
    IF diff_score > 60
    THEN <<[frame |-> i, type |-> "Sudden change", severity |-> "high"]>>
    ELSE IF diff_score < 5
    THEN <<[frame |-> i, type |-> "Static content", severity |-> "medium"]>>
    ELSE <<>>

analyze_temporal_consistency(frames) ==
    IF Len(frames) < 2 THEN <<>>
    ELSE LET Pair(i) ==
                 Bind(DiffScore(frames[i], frames[i + 1]), LAMBDA diff_score :
                      TemporalIssue(i, diff_score))
             F[i \in 0..(Len(frames) - 1)] ==
                 IF i = 0 THEN <<>> ELSE F[i - 1] \o Pair(i)
         IN  F[Len(frames) - 1]

\* _simple_face_tracking, lines 191-217: the issues of the faces collected
FaceIssues(face_data) ==
    LET n == Len(face_data)
        Jump(k) == IF 2 * Abs(face_data[k + 1].size - face_data[k].size)
                          > face_data[k].size
                   THEN <<Anomaly("Face size inconsistency", "high")>> ELSE <<>>
        J[k \in 0..Max(0, n - 1)] == IF k = 0 THEN <<>> ELSE J[k - 1] \o Jump(k)
    IN  [face_issues |->
            IF n > 1
            THEN (IF Bind([k \in 1..n |-> face_data[k].brightness],
                          LAMBDA brightnesses : VarTimesN2(brightnesses) < 50 * n * n)
                  THEN <<Anomaly("Face brightness consistency", "medium")>>
                  ELSE <<>>)
                 \o J[n - 1]
            ELSE <<>>,
         faces_detected |-> n]

\* _simple_face_tracking.  frame.face is <<>> when the cascade finds no face in
\* the frame, else the largest face: brightness in units, area = w * h in pixels.
simple_face_tracking(frames) ==
    LET HasFace(i) == frames[i].face # <<>>
    IN  Bind(SelectSeq([i \in 1..Len(frames) |-> i], HasFace), LAMBDA idx :
        Bind([k \in 1..Len(idx) |->
                 [frame |-> idx[k] - 1,
                  brightness |-> frames[idx[k]].face[1].brightness,
                  size |-> frames[idx[k]].face[1].area]],
             FaceIssues))

\* detect, lines 353-369: the record returned when the try block raises
VideoFallback(error) ==
    [isDeepfake |-> FALSE, confidence |-> Rat(50000, 1), processingTime |-> 1000,
     anomalies |-> <<>>, frameAnalysis |-> <<>>, totalFrames |-> 0,
     analyzedFrames |-> 0, fps |-> 0, deepfakeFrameRatio |-> Rat(0, 1),
     facesDetected |-> 0, mediaType |-> "video", timestamp |-> Timestamp,
     error |-> error]

\* detect, lines 261-264: the progress value reported after frame i (0-based) of n
FrameProgressBad(i, n) == Rat(30 * n + 30 * (i + 1), n)
FrameProgress(i, n) == Rat(30 * n + 30 * i, n)

\* the progress checkpoints of the video detector for n analysed frames; the
\* per-frame updates carry no message.  With no frame the call raises after
\* the first checkpoint.
VideoPoints(n) ==
    IF n = 0
    THEN << Point(Rat(15, 1), Update(Rat(15, 1), "Extracting video frames...")) >>
    ELSE << Point(Rat(15, 1), Update(Rat(15, 1), "Extracting video frames...")),
            Point(Rat(30, 1), Update(Rat(30, 1), "Analyzing frames...")) >>
         \o [k \in 1..n |-> Point(FrameProgress(k - 1, n),
                                  [progress |-> FrameProgress(k - 1, n)])]
         \o << Point(Rat(70, 1), Update(Rat(70, 1), "Checking temporal consistency...")),
               Point(Rat(85, 1), Update(Rat(85, 1), "Analyzing faces...")),
               Point(Rat(100, 1), Update(Rat(100, 1), "Analysis complete")) >>

\* detect, line 232: max_frames=15
max_frames == 15

\* detect, lines 290-299: base_confidence is the mean confidence of the
\* suspicious frames (50 when there is none); total is the sum
\* of their confidences, evidence_boost is in points
VideoConfidenceBad(is_deepfake, deepfake_frame_count, total, evidence_boost) ==
    IF is_deepfake
    THEN IF deepfake_frame_count > 0
         THEN Rat(total + evidence_boost * 1000 * deepfake_frame_count,
                  deepfake_frame_count)
         ELSE Rat(50000 + evidence_boost * 1000, 1)
    ELSE Rat(Max(75000 - evidence_boost * 1000, 60000), 1)
VideoConfidence(is_deepfake, deepfake_frame_count, total, evidence_boost) ==
    IF is_deepfake
    THEN IF deepfake_frame_count > 0
         THEN Bind(Rat(total + evidence_boost * 1000 * deepfake_frame_count,
                       deepfake_frame_count),
                   LAMBDA boosted : IF RatLeq(boosted, Rat(95000, 1))
                                    THEN boosted ELSE Rat(95000, 1))
         ELSE Rat(Min(50000 + evidence_boost * 1000, 95000), 1)
    ELSE Rat(Max(75000 - evidence_boost * 1000, 60000), 1)

\* detect, lines 283-288: the decision; the ratio deepfake_frame_count / n
\* exceeds 0.4
VideoIsDeepfakeBad(deepfake_frame_count, n, n_temporal, n_face) ==
    10 * deepfake_frame_count >= 4 * n \/ n_temporal > 2 \/ n_face > 1
VideoIsDeepfake(deepfake_frame_count, n, n_temporal, n_face) ==
    10 * deepfake_frame_count > 4 * n \/ n_temporal > 2 \/ n_face > 1

\* detect, lines 317-331: the general anomalies added to a fake video, after
\* n_collected anomalies
GeneralAnomaliesBad(is_deepfake, n_collected) ==
    IF is_deepfake /\ n_collected < 1
    THEN <<Anomaly("Visual inconsistency", "medium"),
           Anomaly("Processing artifacts", "high")>>
    ELSE <<>>
GeneralAnomalies(is_deepfake, n_collected) ==
    IF is_deepfake /\ n_collected < 2
    THEN <<Anomaly("Visual inconsistency", "medium"),
           Anomaly("Processing artifacts", "high")>>
    ELSE <<>>

\* detect, lines 280-351: verdict, confidence, anomalies and the record
\* returned.  fa: the frame analyses in order; susp: the positions of the
\* suspicious ones.
VideoVerdict(input, frame_indices, fa, susp, temporal_issues, ft) ==
    LET n == Len(frame_indices)
        deepfake_frame_count == Len(susp)
        \* the sum of the suspicious frames' confidences
        total_suspicious_score == SumSeq([k \in 1..Len(susp) |-> fa[susp[k]].confidence])
        n_temporal == Len(temporal_issues)
        n_face == Len(ft.face_issues)
        ratio_gt_05 == 10 * deepfake_frame_count > 5 * n
        is_deepfake == VideoIsDeepfake(deepfake_frame_count, n, n_temporal, n_face)
        evidence_boost == n_temporal * 5 + n_face * 3
        n_collected == n_temporal + n_face + (IF ratio_gt_05 THEN 1 ELSE 0)
    IN  [isDeepfake |-> is_deepfake,
         confidence |-> VideoConfidence(is_deepfake, deepfake_frame_count,
                                        total_suspicious_score, evidence_boost),
         processingTime |-> 2000,
         anomalies |->
            [i \in 1..n_temporal |->
                Anomaly(temporal_issues[i].type, temporal_issues[i].severity)]
            \o ft.face_issues
            \o (IF ratio_gt_05
                THEN <<Anomaly("High suspicious frame ratio", "high")>> ELSE <<>>)
            \o GeneralAnomalies(is_deepfake, n_collected),
         frameAnalysis |-> [j \in 1..n |->
                               [frame |-> frame_indices[j],
                                confidence |-> fa[j].confidence,
                                isDeepfake |-> fa[j].is_suspicious,
                                reasons |-> fa[j].reasons]],
         totalFrames |-> input.total_frames, analyzedFrames |-> n,
         fps |-> input.fps,
         deepfakeFrameRatio |-> Rat(deepfake_frame_count, n),
         facesDetected |-> ft.faces_detected, mediaType |-> "video",
         timestamp |-> Timestamp, modelUsed |-> "Lightweight CV Analysis"]

\* detect, lines 242-278: the frames are analysed one by one, then the
\* sequence as a whole
VideoAnalyse(input, frame_indices, frames) ==
    LET n == Len(frames)
    IN  Bind([j \in 1..n |-> analyze_single_frame_lightweight(frames[j])], LAMBDA fa :
        Bind(SelectSeq([j \in 1..n |-> j], LAMBDA j : fa[j].is_suspicious), LAMBDA susp :
        Bind(IF input.temporal_ok THEN analyze_temporal_consistency(frames) ELSE <<>>,
             LAMBDA temporal_issues :
        Bind(IF input.faces_ok THEN simple_face_tracking(frames)
             ELSE [face_issues |-> <<>>, faces_detected |-> 0],
             LAMBDA ft :
             VideoVerdict(input, frame_indices, fa, susp, temporal_issues, ft)))))

\* LightweightVideoDetector.detect.  input: total_frames and readable_until
\* (see extract_key_frames), kinds (pattern over the stream positions: the
\* content of each frame), temporal_ok / faces_ok (FALSE when
\* _analyze_temporal_consistency / _simple_face_tracking catches an exception).
VideoDetect(input, sink) ==
    Bind(extract_key_frames(input.total_frames, input.readable_until, max_frames),
         LAMBDA frame_indices :
    Bind(Checkpoints(VideoPoints(Len(frame_indices)), sink), LAMBDA cp :
         IF sink = "raises"
         THEN Outcome(VideoFallback("emit failed"), cp)
         ELSE IF frame_indices = <<>>
         THEN Outcome(VideoFallback("Could not extract frames from video"), cp)
         ELSE Bind([j \in 1..Len(frame_indices) |-> At(input.kinds, frame_indices[j])],
                   LAMBDA frames :
                   Outcome(VideoAnalyse(input, frame_indices, frames), cp))))

\* analyze_video
analyze_video(input, sink) == VideoDetect(input, sink)

----------------------------------------------------------------------------
(* Inputs.  Every feature ranges over values on both sides of, and on, each
   threshold the rules compare it with. *)

\* the largest number of face issues an image input reports
MaxFaceIssues == 3

\* an optional value: the empty sequence, or a sequence holding one value of S
Opt(S) == {<<>>} \cup {<<x>> : x \in S}

ImageFeatureGrid ==
    [edge_density : {29, 30, 40},
     texture_variance : {79, 80, 250},
     color_uniformity : {9, 10, 15},
     freq_variance : {9, 10, 15},
     brightness_std : {19, 20},
     width : {640},
     height : {479, 480}]

\* consistent / unremarkable / extreme by mean / extreme by variance
CompressionGrid ==
    {[avg |-> 30, var |-> 59], [avg |-> 220, var |-> 60],
     [avg |-> 221, var |-> 60], [avg |-> 220, var |-> 121]}

\* the images a single call is checked on; an undecodable file makes every
\* helper fail (cv2.imread returns None in each of them)
ImageGrid ==
    [decodable : {TRUE}, features : Opt(ImageFeatureGrid),
     compression : Opt(CompressionGrid), faces : Opt(0..MaxFaceIssues)]
    \cup {[decodable |-> FALSE, features |-> <<>>, compression |-> <<>>, faces |-> <<>>]}

AudioFeatureGrid ==
    [zcr_std : {4, 5}, rms_std : {49, 50},
     spectral_centroid_std : {199, 200}, mfcc_0_std : {4, 5}]

\* peak lags dividing the sample rate: 400, 200, 100, 80 and 64 Hz
VoiceGrid ==
    [silence_segments : {1, 2},
     peak_idx : {<<80>>, <<160, 200>>, <<40, 250>>},
     freq_variance : {5000, 5001},
     freq_mean : {1000}]

\* no artifact / each artifact alone / all three
SynthGrid ==
    {[peaks |-> 20, avg_variance |-> 10, dynamic_range |-> 100],
     [peaks |-> 21, avg_variance |-> 10, dynamic_range |-> 100],
     [peaks |-> 20, avg_variance |-> 9, dynamic_range |-> 100],
     [peaks |-> 20, avg_variance |-> 10, dynamic_range |-> 99],
     [peaks |-> 21, avg_variance |-> 9, dynamic_range |-> 99]}

\* clip lengths in seconds (librosa.load truncates at 30)
AudioSeconds == {4, 5, 6}

AudioGrid ==
    [loadable : {TRUE}, seconds : AudioSeconds, features : Opt(AudioFeatureGrid),
     voice : Opt(VoiceGrid), synth : Opt(SynthGrid)]
    \cup {[loadable |-> FALSE, seconds |-> 0, features |-> <<>>, voice |-> <<>>,
           synth |-> <<>>]}

FaceGrid == {[brightness |-> 120, area |-> 10000],
             [brightness |-> 121, area |-> 16000],
             [brightness |-> 140, area |-> 10000]}

\* every frame a single frame analysis is checked on
FrameGrid ==
    [blur_score : {99, 100}, edge_density : {79, 80}, color_uniformity : {14, 15},
     brightness : {49, 50, 200, 201}, brightness_std : {29, 30},
     analysable : BOOLEAN, face : {<<>>}]

\* the frame contents videos are built from: all rules / no rule / the rules
\* adding up to exactly 0.4 / an unanalysable frame / the rules adding up to
\* 0.5, at brightness levels 3, 27, 30 and 71 apart
VideoFrameBases ==
    {[blur_score |-> 99, edge_density |-> 79, color_uniformity |-> 14,
      brightness |-> 49, brightness_std |-> 29, analysable |-> TRUE],
     [blur_score |-> 100, edge_density |-> 80, color_uniformity |-> 15,
      brightness |-> 120, brightness_std |-> 30, analysable |-> TRUE],
     [blur_score |-> 100, edge_density |-> 80, color_uniformity |-> 15,
      brightness |-> 123, brightness_std |-> 30, analysable |-> TRUE],
     [blur_score |-> 100, edge_density |-> 79, color_uniformity |-> 14,
      brightness |-> 150, brightness_std |-> 30, analysable |-> TRUE],
     [blur_score |-> 99, edge_density |-> 80, color_uniformity |-> 15,
      brightness |-> 150, brightness_std |-> 29, analysable |-> FALSE],
     [blur_score |-> 99, edge_density |-> 80, color_uniformity |-> 15,
      brightness |-> 120, brightness_std |-> 29, analysable |-> TRUE]}

WithFace(base, face) ==
    [blur_score |-> base.blur_score, edge_density |-> base.edge_density,
     color_uniformity |-> base.color_uniformity, brightness |-> base.brightness,
     brightness_std |-> base.brightness_std, analysable |-> base.analysable,
     face |-> face]

VideoFrameKinds == {WithFace(b, f) : b \in VideoFrameBases, f \in Opt(FaceGrid)}

\* the sides of the images the compression analysis is checked on: up to
\* MaxBlocks blocks, each count with no, one and seven pixels to spare
MaxBlocks == 3
Sides == {8 * k + d : k \in 0..MaxBlocks, d \in {0, 1, 7}}

\* the images the compression analysis is checked on; the blocks' ratios are
\* all equal, alternate, or alternate with blocks of no energy
BlockGrid ==
    [h : Sides, w : Sides,
     ratios : {<<100>>, <<100, 300>>, <<-1, 200>>, <<-1>>}]

\* the number of leading frames of a video whose content varies freely
MaxVarFrames == 2
\* the longest stream of uniform content
MaxTotalFrames == 46

\* the length of the streams mixing two contents
MixedFrames == 5
\* the two contents mixed: a suspicious frame (score 0.5) and one that is not
\* (score 0.4), 30 apart in brightness
MixedFrameKinds ==
    {WithFace(b, <<>>) : b \in
        {[blur_score |-> 99, edge_density |-> 80, color_uniformity |-> 15,
          brightness |-> 120, brightness_std |-> 29, analysable |-> TRUE],
         [blur_score |-> 100, edge_density |-> 79, color_uniformity |-> 14,
          brightness |-> 150, brightness_std |-> 30, analysable |-> TRUE]}}

\* sequences over S of length 1..n
SeqUpTo(S, n) == UNION {[1..k -> S] : k \in 1..n}

\* the videos a single call is checked on: short streams of freely varying
\* content, and streams of any length up to MaxTotalFrames whose frames share
\* one content and whose reads fail from position 8 on or not at all, and
\* streams of MixedFrames frames mixing two contents
VideoGrid ==
    {[total_frames |-> Len(kinds), readable_until |-> Len(kinds), kinds |-> kinds,
      temporal_ok |-> t, faces_ok |-> f, fps |-> 30] :
        kinds \in SeqUpTo(VideoFrameKinds, MaxVarFrames), t \in BOOLEAN, f \in BOOLEAN}
    \cup
    {[total_frames |-> n, readable_until |-> r, kinds |-> <<k>>,
      temporal_ok |-> TRUE, faces_ok |-> TRUE, fps |-> 30] :
        n \in 0..MaxTotalFrames, r \in {8, MaxTotalFrames + 1},
        k \in {WithFace(b, <<>>) : b \in VideoFrameBases}}
    \cup
    {[total_frames |-> MixedFrames, readable_until |-> MixedFrames, kinds |-> kinds,
      temporal_ok |-> TRUE, faces_ok |-> TRUE, fps |-> 30] :
        kinds \in [1..MixedFrames -> MixedFrameKinds]}

----------------------------------------------------------------------------
(* Detection calls *)

NoCall == [modality |-> "none"]
NoResult == [none |-> TRUE]
NoMemo == [none |-> TRUE]

HasResult == "isDeepfake" \in DOMAIN result
HasMemo == "call" \in DOMAIN memo

\* the module-level entry point a call goes through
Run(c, self_sample_rate) ==
    IF c.modality = "image" THEN analyze_image(c.input, c.sink)
    ELSE IF c.modality = "audio" THEN analyze_audio(c.input, c.sink, self_sample_rate)
    ELSE analyze_video(c.input, c.sink)

\* the detector's field after a call: no method of the three detector classes
\* assigns to self outside __init__ (audio_model.py line 17 is the only one)
DetectorAfterBad(c, self_sample_rate) ==
    IF c.modality = "audio" /\ c.input.loadable THEN 8000 ELSE self_sample_rate
DetectorAfter(c, self_sample_rate) == self_sample_rate

\* __init__ of LightweightAudioDetector
InitialSampleRate == 16000

\* the state left by call c, made on the shared detector
Returned(c) ==
    \E out \in {Run(c, sample_rate)} :
        /\ call' = c
        /\ result' = out.result
        /\ written' = out.written
        /\ emitted' = out.emitted
        /\ sample_rate' = DetectorAfter(c, sample_rate)

Call(modality, input, sink) == [modality |-> modality, input |-> input, sink |-> sink]

----------------------------------------------------------------------------
(* SpecCall: one detection call on each input of the grids *)

\* no HTTP request has been handled, no user has signed up
NoExchange == [route |-> "none"]
ApiIdle ==
    /\ http = NoExchange
    /\ users = {}
    /\ held = [credentials |-> {}, tokens |-> {}]
    /\ signups = <<>>
    /\ indexes = {}

\* no client, no worker, no HTTP request: the detectors are called directly
HostIdle ==
    /\ ApiIdle
    /\ analysis_progress = <<>>
    /\ workers = <<>>
    /\ disk = {}
    /\ rooms = <<>>
    /\ clients = <<>>
    /\ handlers = <<>>
    /\ requests = 0
    /\ cancelled = <<>>
    /\ key_errors = {}

\* a frame analysis outside a video call is recorded like a call, its result
\* being the tuple _analyze_single_frame_lightweight returns
CallInit ==
    /\ \/ \E i \in ImageGrid, k \in SinkModes : call = Call("image", i, k)
       \/ \E i \in AudioGrid, k \in SinkModes : call = Call("audio", i, k)
       \/ \E i \in VideoGrid, k \in SinkModes : call = Call("video", i, k)
       \/ \E i \in FrameGrid : call = Call("frame", i, "none")
       \/ \E i \in BlockGrid : call = Call("compression", i, "none")
    /\ result = NoResult
    /\ written = <<>>
    /\ emitted = <<>>
    /\ sample_rate = InitialSampleRate
    /\ memo = NoMemo
    /\ HostIdle

AnalyzeImageOnce ==
    /\ call.modality = "image" /\ result = NoResult
    /\ Returned(call)
    /\ UNCHANGED memo
    /\ UNCHANGED <<hostVars, apiVars>>

AnalyzeAudioOnce ==
    /\ call.modality = "audio" /\ result = NoResult
    /\ Returned(call)
    /\ UNCHANGED memo
    /\ UNCHANGED <<hostVars, apiVars>>

AnalyzeVideoOnce ==
    /\ call.modality = "video" /\ result = NoResult
    /\ Returned(call)
    /\ UNCHANGED memo
    /\ UNCHANGED <<hostVars, apiVars>>

AnalyzeFrameOnce ==
    /\ call.modality = "frame" /\ result = NoResult
    /\ result' = analyze_single_frame_lightweight(call.input)
    /\ UNCHANGED <<call, written, emitted, sample_rate, memo>>
    /\ UNCHANGED <<hostVars, apiVars>>

\* a compression analysis outside an image call is recorded like a call
AnalyzeCompressionOnce ==
    /\ call.modality = "compression" /\ result = NoResult
    /\ result' = analyze_compression_artifacts(call.input)
    /\ UNCHANGED <<call, written, emitted, sample_rate, memo>>
    /\ UNCHANGED <<hostVars, apiVars>>

CallNext ==
    \/ AnalyzeImageOnce \/ AnalyzeAudioOnce \/ AnalyzeVideoOnce \/ AnalyzeFrameOnce
    \/ AnalyzeCompressionOnce

SpecCall == CallInit /\ [][CallNext]_vars

----------------------------------------------------------------------------
(* SpecImage: one image call on each input of a grid that has, for every
   feature, the values on both sides of each bound of the suspicion rules and
   of the green indicators *)

\* the largest number of face issues of an image of this grid
ManyFaceIssues == 10

BoundaryImageFeatures ==
    [edge_density : {29, 30, 39, 40, 250, 251},
     texture_variance : {79, 80, 249, 250},
     color_uniformity : {9, 10, 14, 15, 60, 61},
     freq_variance : {9, 10, 14, 15, 200, 201},
     brightness_std : {19, 20},
     width : {640},
     height : {479, 480}]

BoundaryCompression ==
    [avg : {29, 30, 200, 201, 220, 221}, var : {59, 60, 120, 121}]

BoundaryImageGrid ==
    [decodable : {TRUE}, features : {<<f>> : f \in BoundaryImageFeatures},
     compression : {<<c>> : c \in BoundaryCompression},
     faces : {<<n>> : n \in 0..ManyFaceIssues}]

ImageInit ==
    /\ \E i \in BoundaryImageGrid : call = Call("image", i, "none")
    /\ result = NoResult
    /\ written = <<>>
    /\ emitted = <<>>
    /\ sample_rate = InitialSampleRate
    /\ memo = NoMemo
    /\ HostIdle

ImageNext == AnalyzeImageOnce

SpecImage == ImageInit /\ [][ImageNext]_vars

----------------------------------------------------------------------------
(* Spec: any sequence of detection calls on the shared module-level detectors *)

FlatImage ==
    [edge_density |-> 29, texture_variance |-> 79, color_uniformity |-> 9,
     freq_variance |-> 9, brightness_std |-> 19, width |-> 640, height |-> 479]

\* an undecodable file, a flat image with three face issues, and an image
\* whose compression analysis and face check both fail
ImageSamples ==
    {[decodable |-> FALSE, features |-> <<>>, compression |-> <<>>, faces |-> <<>>],
     [decodable |-> TRUE, features |-> <<FlatImage>>,
      compression |-> <<[avg |-> 221, var |-> 60]>>, faces |-> <<MaxFaceIssues>>],
     [decodable |-> TRUE, features |-> <<FlatImage>>, compression |-> <<>>,
      faces |-> <<>>]}

\* an unloadable file, a monotonous clip, and a clip on which every helper fails
AudioSamples ==
    {[loadable |-> FALSE, seconds |-> 0, features |-> <<>>, voice |-> <<>>,
      synth |-> <<>>],
     [loadable |-> TRUE, seconds |-> 6,
      features |-> <<[zcr_std |-> 4, rms_std |-> 49,
                      spectral_centroid_std |-> 199, mfcc_0_std |-> 4]>>,
      voice |-> <<[silence_segments |-> 1, peak_idx |-> <<40, 250>>,
                   freq_variance |-> 5001, freq_mean |-> 1000]>>,
      synth |-> <<[peaks |-> 21, avg_variance |-> 9, dynamic_range |-> 99]>>],
     [loadable |-> TRUE, seconds |-> 6, features |-> <<>>, voice |-> <<>>,
      synth |-> <<>>]}

\* a stream without frames, three over-smoothed frames, sixteen natural frames
VideoSamples ==
    {[total_frames |-> 0, readable_until |-> 0,
      kinds |-> <<WithFace(CHOOSE b \in VideoFrameBases : b.brightness = 49, <<>>)>>,
      temporal_ok |-> TRUE, faces_ok |-> TRUE, fps |-> 30],
     [total_frames |-> 3, readable_until |-> 3,
      kinds |-> <<WithFace(CHOOSE b \in VideoFrameBases : b.brightness = 49, <<>>)>>,
      temporal_ok |-> TRUE, faces_ok |-> TRUE, fps |-> 30],
     [total_frames |-> 16, readable_until |-> 16,
      kinds |-> <<WithFace(CHOOSE b \in VideoFrameBases : b.brightness = 123, <<>>)>>,
      temporal_ok |-> FALSE, faces_ok |-> TRUE, fps |-> 30]}

Init ==
    /\ call = NoCall
    /\ result = NoResult
    /\ written = <<>>
    /\ emitted = <<>>
    /\ sample_rate = InitialSampleRate
    /\ memo = NoMemo
    /\ HostIdle

\* the call that just returned may be kept for comparison with a later one
Remember(keep) ==
    memo' = IF keep /\ memo = NoMemo /\ HasResult
            THEN [call |-> call, result |-> result]
            ELSE memo

AnalyzeImage ==
    \E input \in ImageSamples, sink \in SinkModes, keep \in BOOLEAN :
        /\ Returned(Call("image", input, sink))
        /\ Remember(keep)
        /\ UNCHANGED <<hostVars, apiVars>>

AnalyzeAudio ==
    \E input \in AudioSamples, sink \in SinkModes, keep \in BOOLEAN :
        /\ Returned(Call("audio", input, sink))
        /\ Remember(keep)
        /\ UNCHANGED <<hostVars, apiVars>>

AnalyzeVideo ==
    \E input \in VideoSamples, sink \in SinkModes, keep \in BOOLEAN :
        /\ Returned(Call("video", input, sink))
        /\ Remember(keep)
        /\ UNCHANGED <<hostVars, apiVars>>

Next == AnalyzeImage \/ AnalyzeAudio \/ AnalyzeVideo

Spec == Init /\ [][Next]_vars

----------------------------------------------------------------------------
(* The websocket host: main.py.  Handlers run in the server's threads and
   each start_analysis starts a process_media thread; the threads interleave
   at every access to analysis_progress and at every emit. *)

Sessions == {"s1", "s2"}

\* the number of process_media threads that can be started
MaxWorkers == 1
Workers == 1..MaxWorkers

\* the number of client requests handled
MaxRequests == 2

\* the media types a request names: one per branch of process_media's dispatch
MediaTypes == {"image", "video", "audio", "pdf"}

\* an event emitted into a room; analysis is the thread it belongs to (0 for a
\* handler's event)
Event(name, analysis, payload) ==
    [event |-> name, analysis |-> analysis, payload |-> payload]

\* socketio.emit(name, payload, room=room)
Emit(room, e) == rooms' = [rooms EXCEPT ![room] = Append(@, e)]

\* analysis_progress[s] = v
SetProgress(d, s, v) == [k \in DOMAIN d \cup {s} |-> IF k = s THEN v ELSE d[k]]
\* del analysis_progress[s]
DelProgress(d, s) == [k \in DOMAIN d \ {s} |-> d[k]]

\* a thread that has not been started; file_path 0 is None
IdleWorker ==
    [pc |-> "idle", session_id |-> "", media_type |-> "", file_path |-> 0,
     result |-> NoResult, todo |-> <<>>]

IdleHandler == [pc |-> "idle", target |-> ""]

\* create_fallback_result
create_fallback_result(media_type, error_msg) ==
    [isDeepfake |-> FALSE, confidence |-> Rat(50000, 1), processingTime |-> 500,
     anomalies |-> <<Anomaly("Analysis unavailable", "info")>>,
     mediaType |-> media_type, timestamp |-> Timestamp, modelUsed |-> "Fallback",
     deployment_mode |-> TRUE]

\* the file a worker analyses, by the media type requested
HostInput(media_type) ==
    IF media_type = "image"
    THEN [decodable |-> TRUE, features |-> <<FlatImage>>,
          compression |-> <<[avg |-> 221, var |-> 60]>>, faces |-> <<MaxFaceIssues>>]
    ELSE IF media_type = "audio"
    THEN [loadable |-> TRUE, seconds |-> 6, features |-> <<>>, voice |-> <<>>,
          synth |-> <<>>]
    ELSE [total_frames |-> 1, readable_until |-> 1,
          kinds |-> <<WithFace(CHOOSE b \in VideoFrameBases : b.brightness = 49, <<>>)>>,
          temporal_ok |-> TRUE, faces_ok |-> TRUE, fps |-> 30]

\* the checkpoints a detection call passes, in order: the value assigned to
\* the progress entry and, when the emit delivered, the payload emitted
Todo(out) ==
    [i \in 1..Len(out.written) |->
        [value |-> out.written[i],
         payload |-> IF i <= Len(out.emitted) THEN <<out.emitted[i]>> ELSE <<>>]]

HostInit ==
    /\ call = NoCall
    /\ result = NoResult
    /\ written = <<>>
    /\ emitted = <<>>
    /\ sample_rate = InitialSampleRate
    /\ memo = NoMemo
    /\ analysis_progress = <<>>
    /\ workers = [w \in Workers |-> IdleWorker]
    /\ disk = {}
    /\ rooms = [s \in Sessions |-> <<>>]
    /\ clients = [s \in Sessions |-> "new"]
    /\ handlers = [s \in Sessions |-> IdleHandler]
    /\ requests = 0
    /\ cancelled = [w \in Workers |-> 0]
    /\ key_errors = {}
    /\ ApiIdle

\* a client may send a request: it is connected, no handler runs for it
MayRequest(c) ==
    /\ clients[c] = "connected"
    /\ handlers[c].pc = "idle"
    /\ requests < MaxRequests

\* handle_connect
handle_connect ==
    \E c \in Sessions :
        /\ clients[c] = "new"
        /\ clients' = [clients EXCEPT ![c] = "connected"]
        /\ Emit(c, Event("connection_status", 0, <<>>))
        /\ UNCHANGED <<analysis_progress, workers, disk, handlers, requests,
                       cancelled, key_errors>>
        /\ UNCHANGED <<engineVars, apiVars>>

\* handle_disconnect, line 152: the membership test
handle_disconnect ==
    \E c \in Sessions :
        /\ clients[c] = "connected"
        /\ handlers[c].pc = "idle"
        /\ clients' = [clients EXCEPT ![c] = "gone"]
        /\ handlers' = [handlers EXCEPT ![c] =
                           IF c \in DOMAIN analysis_progress
                           THEN [pc |-> "disconnect_del", target |-> c]
                           ELSE IdleHandler]
        /\ UNCHANGED <<analysis_progress, workers, disk, rooms, requests,
                       cancelled, key_errors>>
        /\ UNCHANGED <<engineVars, apiVars>>

\* handle_disconnect, line 153: the deletion
handle_disconnect_del ==
    \E c \in Sessions :
        /\ handlers[c].pc = "disconnect_del"
        /\ handlers' = [handlers EXCEPT ![c] = IdleHandler]
        /\ IF c \in DOMAIN analysis_progress
           THEN /\ analysis_progress' = DelProgress(analysis_progress, c)
                /\ UNCHANGED key_errors
           ELSE /\ key_errors' = key_errors \cup {"handle_disconnect"}
                /\ UNCHANGED analysis_progress
        /\ UNCHANGED <<workers, disk, rooms, clients, requests, cancelled>>
        /\ UNCHANGED <<engineVars, apiVars>>

\* handle_start_analysis, lines 157-176: up to thread.start().  present is
\* FALSE when media_url or media_type is missing from the request.
handle_start_analysis ==
    \E c \in Sessions, present \in BOOLEAN, media_type \in MediaTypes :
        /\ MayRequest(c)
        /\ requests' = requests + 1
        /\ IF ~present
           THEN /\ Emit(c, Event("analysis_error", 0, <<"MISSING_PARAMETERS">>))
                /\ UNCHANGED <<workers, handlers>>
           ELSE \E w \in Workers :
                /\ workers[w].pc = "idle"
                /\ \A v \in Workers : v < w => workers[v].pc # "idle"
                /\ workers' = [workers EXCEPT ![w] =
                                  [pc |-> "begin", session_id |-> c,
                                   media_type |-> media_type, file_path |-> 0,
                                   result |-> NoResult, todo |-> <<>>]]
                /\ handlers' = [handlers EXCEPT ![c] =
                                   [pc |-> "start_emit", target |-> c]]
                /\ UNCHANGED rooms
        /\ UNCHANGED <<analysis_progress, disk, clients, cancelled, key_errors>>
        /\ UNCHANGED <<engineVars, apiVars>>

\* handle_start_analysis, lines 178-182: analysis_started is emitted
handle_start_analysis_emit ==
    \E c \in Sessions :
        /\ handlers[c].pc = "start_emit"
        /\ handlers' = [handlers EXCEPT ![c] = IdleHandler]
        /\ Emit(c, Event("analysis_started", 0, <<>>))
        /\ UNCHANGED <<analysis_progress, workers, disk, clients, requests,
                       cancelled, key_errors>>
        /\ UNCHANGED <<engineVars, apiVars>>

\* handle_get_progress: target is data.get('session_id', request.sid)
handle_get_progress ==
    \E c \in Sessions, target \in Sessions :
        /\ MayRequest(c)
        /\ requests' = requests + 1
        /\ Emit(target, Event("progress_update", 0,
                              <<[progress |-> IF target \in DOMAIN analysis_progress
                                              THEN analysis_progress[target]
                                              ELSE Rat(0, 1)]>>))
        /\ UNCHANGED <<analysis_progress, workers, disk, clients, handlers,
                       cancelled, key_errors>>
        /\ UNCHANGED <<engineVars, apiVars>>

\* handle_cancel_analysis, line 194: the membership test, and the else branch
handle_cancel_analysis ==
    \E c \in Sessions, target \in Sessions :
        /\ MayRequest(c)
        /\ requests' = requests + 1
        /\ IF target \in DOMAIN analysis_progress
           THEN /\ handlers' = [handlers EXCEPT ![c] =
                                   [pc |-> "cancel_del", target |-> target]]
                /\ UNCHANGED rooms
           ELSE /\ Emit(target, Event("analysis_error", 0,
                                      <<"No ongoing analysis found">>))
                /\ UNCHANGED handlers
        /\ UNCHANGED <<analysis_progress, workers, disk, clients, cancelled,
                       key_errors>>
        /\ UNCHANGED <<engineVars, apiVars>>

\* a process_media thread that has been started and has not ended
InFlight(w) == workers[w].pc \notin {"idle", "done"}

\* handle_cancel_analysis, lines 195-197: the deletion and analysis_cancelled
handle_cancel_analysis_del ==
    \E c \in Sessions :
        /\ handlers[c].pc = "cancel_del"
        /\ handlers' = [handlers EXCEPT ![c] = IdleHandler]
        /\ LET target == handlers[c].target
           IN  IF target \in DOMAIN analysis_progress
               THEN /\ analysis_progress' = DelProgress(analysis_progress, target)
                    /\ Emit(target, Event("analysis_cancelled", 0, <<>>))
                    /\ cancelled' =
                          [w \in Workers |->
                              IF InFlight(w) /\ workers[w].session_id = target
                                 /\ cancelled[w] = 0
                              THEN Len(rooms[target]) + 1
                              ELSE cancelled[w]]
                    /\ UNCHANGED key_errors
               ELSE /\ key_errors' = key_errors \cup {"handle_cancel_analysis"}
                    /\ UNCHANGED <<analysis_progress, rooms, cancelled>>
        /\ UNCHANGED <<workers, disk, clients, requests>>
        /\ UNCHANGED <<engineVars, apiVars>>

\* a worker moves on
Goto(w, pc) == workers' = [workers EXCEPT ![w].pc = pc]

\* process_media, lines 32-33
process_media_begin ==
    \E w \in Workers :
        /\ workers[w].pc = "begin"
        /\ analysis_progress' =
              SetProgress(analysis_progress, workers[w].session_id, Rat(5, 1))
        /\ Emit(workers[w].session_id,
                Event("progress_update", w, <<Update(Rat(5, 1), "Downloading file...")>>))
        /\ Goto(w, "download")
        /\ UNCHANGED <<disk, clients, handlers, requests, cancelled, key_errors>>
        /\ UNCHANGED <<engineVars, apiVars>>

\* process_media, lines 36-51, with download_file.  outcome: "failed" (the
\* request fails before the file is opened), "partial" (it fails after:
\* download_file returns None and the file stays), "empty" (a file of size 0),
\* "ok".
process_media_download ==
    \E w \in Workers, outcome \in {"failed", "partial", "empty", "ok"} :
        /\ workers[w].pc = "download"
        /\ disk' = IF outcome = "failed" THEN disk ELSE disk \cup {w}
        /\ workers' = [workers EXCEPT
                          ![w].file_path = IF outcome \in {"failed", "partial"}
                                           THEN 0 ELSE w,
                          ![w].pc = IF outcome = "ok" THEN "start" ELSE "cleanup"]
        /\ IF outcome \in {"failed", "partial"}
           THEN Emit(workers[w].session_id,
                     Event("analysis_error", w, <<"DOWNLOAD_FAILED">>))
           ELSE IF outcome = "empty"
           THEN Emit(workers[w].session_id,
                     Event("analysis_error", w, <<"FILE_CORRUPTED">>))
           ELSE UNCHANGED rooms
        /\ UNCHANGED <<analysis_progress, clients, handlers, requests, cancelled,
                       key_errors>>
        /\ UNCHANGED <<engineVars, apiVars>>

\* process_media, lines 54-55
process_media_start ==
    \E w \in Workers :
        /\ workers[w].pc = "start"
        /\ analysis_progress' =
              SetProgress(analysis_progress, workers[w].session_id, Rat(10, 1))
        /\ Emit(workers[w].session_id,
                Event("progress_update", w, <<Update(Rat(10, 1), "Starting analysis...")>>))
        /\ Goto(w, "analyze")
        /\ UNCHANGED <<disk, clients, handlers, requests, cancelled, key_errors>>
        /\ UNCHANGED <<engineVars, apiVars>>

\* process_media, line 88: the return after UNSUPPORTED_MEDIA_TYPE leads to
\* the finally block
AfterUnsupportedBad == "report"
AfterUnsupported == "cleanup"

\* process_media, lines 58-91: the dispatch on media_type and the detector
\* called.  importable is FALSE when importing the detector's module raises
\* (the except branch builds the fallback result); sink is how the detector's
\* emit behaves in this thread.  The detector's checkpoints are taken one by
\* one in process_media_checkpoint.
process_media_analyze ==
    \E w \in Workers, importable \in BOOLEAN, sink \in {"ok", "raises"} :
        /\ workers[w].pc = "analyze"
        /\ LET media_type == workers[w].media_type
           IN  IF media_type \notin {"image", "video", "audio"}
               THEN /\ importable /\ sink = "ok"
                    /\ Emit(workers[w].session_id,
                            Event("analysis_error", w, <<"UNSUPPORTED_MEDIA_TYPE">>))
                    /\ Goto(w, AfterUnsupported)
               ELSE IF ~importable
               THEN /\ sink = "ok"
                    /\ workers' = [workers EXCEPT
                          ![w].result = create_fallback_result(media_type, "import"),
                          ![w].pc = "report"]
                    /\ UNCHANGED rooms
               ELSE \E out \in {Run(Call(media_type, HostInput(media_type), sink),
                                    sample_rate)} :
                    /\ workers' = [workers EXCEPT ![w].result = out.result,
                                                  ![w].todo = Todo(out),
                                                  ![w].pc = "checkpoint"]
                    /\ UNCHANGED rooms
        /\ UNCHANGED <<analysis_progress, disk, clients, handlers, requests,
                       cancelled, key_errors>>
        /\ UNCHANGED <<engineVars, apiVars>>

\* one checkpoint of the detector called at line 63, 71 or 79:
\* progress_dict[session_id] = value, then emit
process_media_checkpoint ==
    \E w \in Workers :
        /\ workers[w].pc = "checkpoint"
        /\ IF workers[w].todo = <<>>
           THEN /\ Goto(w, "report")
                /\ UNCHANGED <<analysis_progress, rooms>>
           ELSE /\ analysis_progress' =
                      SetProgress(analysis_progress, workers[w].session_id,
                                  Head(workers[w].todo).value)
                /\ workers' = [workers EXCEPT ![w].todo = Tail(@)]
                /\ IF Head(workers[w].todo).payload = <<>>
                   THEN UNCHANGED rooms
                   ELSE Emit(workers[w].session_id,
                             Event("progress_update", w, Head(workers[w].todo).payload))
        /\ UNCHANGED <<disk, clients, handlers, requests, cancelled, key_errors>>
        /\ UNCHANGED <<engineVars, apiVars>>

\* process_media, lines 94-108: the metadata and the final event.  raises is
\* TRUE when a statement of lines 94-100 raises (the except branch answers).
process_media_report ==
    \E w \in Workers, raises \in BOOLEAN :
        /\ workers[w].pc = "report"
        /\ IF raises
           THEN Emit(workers[w].session_id,
                     Event("analysis_error", w, <<"PROCESSING_ERROR">>))
           ELSE Emit(workers[w].session_id,
                     Event("analysis_complete", w, <<workers[w].result>>))
        /\ Goto(w, "cleanup")
        /\ UNCHANGED <<analysis_progress, disk, clients, handlers, requests,
                       cancelled, key_errors>>
        /\ UNCHANGED <<engineVars, apiVars>>

\* process_media, lines 112-113, with cleanup_file
process_media_cleanup ==
    \E w \in Workers :
        /\ workers[w].pc = "cleanup"
        /\ disk' = IF workers[w].file_path # 0 THEN disk \ {workers[w].file_path}
                   ELSE disk
        /\ Goto(w, "check_progress")
        /\ UNCHANGED <<analysis_progress, rooms, clients, handlers, requests,
                       cancelled, key_errors>>
        /\ UNCHANGED <<engineVars, apiVars>>

\* process_media, line 116: the membership test
process_media_check_progress ==
    \E w \in Workers :
        /\ workers[w].pc = "check_progress"
        /\ Goto(w, IF workers[w].session_id \in DOMAIN analysis_progress
                   THEN "del_progress" ELSE "done")
        /\ UNCHANGED <<analysis_progress, disk, rooms, clients, handlers, requests,
                       cancelled, key_errors>>
        /\ UNCHANGED <<engineVars, apiVars>>

\* process_media, line 117: the deletion
process_media_del_progress ==
    \E w \in Workers :
        /\ workers[w].pc = "del_progress"
        /\ IF workers[w].session_id \in DOMAIN analysis_progress
           THEN /\ analysis_progress' =
                      DelProgress(analysis_progress, workers[w].session_id)
                /\ UNCHANGED key_errors
           ELSE /\ key_errors' = key_errors \cup {"process_media"}
                /\ UNCHANGED analysis_progress
        /\ Goto(w, "done")
        /\ UNCHANGED <<disk, rooms, clients, handlers, requests, cancelled>>
        /\ UNCHANGED <<engineVars, apiVars>>

HostNext ==
    \/ handle_connect
    \/ handle_disconnect
    \/ handle_disconnect_del
    \/ handle_start_analysis
    \/ handle_start_analysis_emit
    \/ handle_get_progress
    \/ handle_cancel_analysis
    \/ handle_cancel_analysis_del
    \/ process_media_begin
    \/ process_media_download
    \/ process_media_start
    \/ process_media_analyze
    \/ process_media_checkpoint
    \/ process_media_report
    \/ process_media_cleanup
    \/ process_media_check_progress
    \/ process_media_del_progress

SpecHost == HostInit /\ [][HostNext]_vars

----------------------------------------------------------------------------
(* SpecRoutes: the HTTP routes POST /analyze and POST /batch-analyze *)

\* the number of HTTP requests handled
MaxHttpRequests == 2
\* the longest media_list of a batch request
MaxBatch == 2

\* download_file.  outcome: "failed" (the request fails before the file is
\* opened), "partial" (it fails after: the file stays and None is returned),
\* "ok".  file_path <<>> is None; created is the set of files written.
download_file(outcome, file) ==
    [file_path |-> IF outcome = "ok" THEN <<file>> ELSE <<>>,
     created |-> IF outcome = "failed" THEN {} ELSE {file}]

\* cleanup_file: the files left on a disk holding files
cleanup_file(files, file_path) == files \ {file_path}

\* the three branches of the dispatch on media_type (lines 28-33 and 76-81)
RouteModality(media_type) ==
    IF media_type \in {"image", "jpg", "jpeg", "png"} THEN "image"
    ELSE IF media_type \in {"video", "mp4", "mov", "avi", "mkv"} THEN "video"
    ELSE IF media_type \in {"audio", "wav", "mp3"} THEN "audio"
    ELSE "none"

\* the try block of analyze_media (lines 20-47) and of one turn of the loop of
\* batch_analyze (lines 67-98), which are the same statements: status and body
\* answered for the item, the files created for it and those left behind.
\* item.raises is TRUE when a statement after the download raises.
AnalyzeItem(item, file, self_sample_rate) ==
    LET dl == download_file(item.outcome, file)
        modality == RouteModality(item.media_type)
    IN  IF dl.file_path = <<>>
        THEN [status |-> 400, body |-> [error |-> "Failed to download file"],
              created |-> dl.created, left |-> dl.created]
        ELSE IF item.raises
        THEN [status |-> 500, body |-> [error |-> "exception"],
              created |-> dl.created,
              left |-> cleanup_file(dl.created, dl.file_path[1])]
        ELSE IF modality = "none"
        THEN [status |-> 400, body |-> [error |-> "Unsupported media type"],
              created |-> dl.created, left |-> dl.created]
        ELSE [status |-> 200,
              body |-> Run(Call(modality, HostInput(modality), "none"),
                           self_sample_rate).result,
              created |-> dl.created,
              left |-> cleanup_file(dl.created, dl.file_path[1])]

\* the items a request names; present is FALSE when media_url or media_type
\* is missing
RouteItems ==
    [present : BOOLEAN, media_type : MediaTypes \cup {"png", "mp4", "wav"},
     outcome : {"failed", "partial", "ok"}, raises : BOOLEAN]

RoutesInit == HostIdle /\ call = NoCall /\ result = NoResult /\ written = <<>>
              /\ emitted = <<>> /\ sample_rate = InitialSampleRate /\ memo = NoMemo

\* POST /analyze.  key_ok is FALSE when validate_api_key rejects the request.
analyze_media ==
    \E key_ok \in BOOLEAN, item \in RouteItems :
        /\ requests < MaxHttpRequests
        /\ requests' = requests + 1
        /\ IF ~key_ok
           THEN /\ http' = [route |-> "analyze", status |-> 401,
                            body |-> [error |-> "Invalid API key"], created |-> {}]
                /\ UNCHANGED disk
           ELSE IF ~item.present
           THEN /\ http' = [route |-> "analyze", status |-> 400,
                            body |-> [error |-> "Missing media_url or media_type"],
                            created |-> {}]
                /\ UNCHANGED disk
           ELSE \E out \in {AnalyzeItem(item, <<requests + 1, 1>>, sample_rate)} :
                /\ http' = [route |-> "analyze", status |-> out.status,
                            body |-> out.body, created |-> out.created]
                /\ disk' = disk \cup out.left
        /\ UNCHANGED <<analysis_progress, workers, rooms, clients, handlers,
                       cancelled, key_errors, users, held, signups, indexes>>
        /\ UNCHANGED engineVars

\* POST /batch-analyze: the loop over media_list, one entry of results per item
batch_analyze ==
    \E key_ok \in BOOLEAN, n \in 0..MaxBatch :
    \E media_list \in [1..n -> RouteItems] :
        /\ requests < MaxHttpRequests
        /\ requests' = requests + 1
        /\ IF ~key_ok
           THEN /\ http' = [route |-> "batch-analyze", status |-> 401,
                            body |-> [error |-> "Invalid API key"], created |-> {}]
                /\ UNCHANGED disk
           ELSE IF media_list = <<>>
           THEN /\ http' = [route |-> "batch-analyze", status |-> 400,
                            body |-> [error |-> "Missing media_list"], created |-> {}]
                /\ UNCHANGED disk
           ELSE \E outs \in {[k \in 1..n |->
                                IF media_list[k].present
                                THEN AnalyzeItem(media_list[k], <<requests + 1, k>>,
                                                 sample_rate)
                                ELSE [status |-> 400,
                                      body |-> [error |->
                                                  "Missing media_url or media_type"],
                                      created |-> {}, left |-> {}]]} :
                /\ http' = [route |-> "batch-analyze", status |-> 200,
                            body |-> [results |-> [k \in 1..n |-> outs[k].body]],
                            created |-> UNION {outs[k].created : k \in 1..n}]
                /\ disk' = disk \cup UNION {outs[k].left : k \in 1..n}
        /\ UNCHANGED <<analysis_progress, workers, rooms, clients, handlers,
                       cancelled, key_errors, users, held, signups, indexes>>
        /\ UNCHANGED engineVars

RoutesNext == analyze_media \/ batch_analyze

SpecRoutes == RoutesInit /\ [][RoutesNext]_vars

----------------------------------------------------------------------------
(* SpecAuth: the routes POST /auth/signup, POST /auth/login and GET /auth/me *)

\* the number of auth requests handled
MaxAuthRequests == 3
\* the most whitespace characters on either side of an email
MaxPad == 1

\* strings are sequences of characters: a letter in both cases, a space
Whitespace == {" "}

\* the emails of the requests: nothing, a letter in either case, two letters,
\* two letters around a space, each with up to MaxPad spaces on either side
EmailCores == {<<>>, <<"a">>, <<"A">>, <<"a", "A">>, <<"A", " ", "a">>}
Emails ==
    {Repeat(" ", l) \o core \o Repeat(" ", r) :
        core \in EmailCores, l \in 0..MaxPad, r \in 0..MaxPad}

\* a password missing, one of 5 characters, two of 7 that differ in case
Passwords == {"", "12345", "test123", "Test123"}

\* str.lower
lowerBad(text) == text
lower(text) == [i \in 1..Len(text) |-> IF text[i] = "A" THEN "a" ELSE text[i]]

\* str.strip
RECURSIVE strip(_)
strip(text) ==
    IF text = <<>> THEN text
    ELSE IF Head(text) \in Whitespace THEN strip(Tail(text))
    ELSE IF text[Len(text)] \in Whitespace THEN strip(SubSeq(text, 1, Len(text) - 1))
    ELSE text

\* werkzeug's generate_password_hash draws a salt and stores it beside the
\* digest of salt and password; check_password_hash recomputes the digest
Salts == {1, 2}
generate_password_hash(password, salt) ==
    [salt |-> salt, digest |-> <<salt, password>>]
check_password_hash(pwhash, password) == pwhash.digest = <<pwhash.salt, password>>

\* _create_token: a token signed with the service's secret; it expires after
\* _jwt_exp_minutes(), which no request of the model outlives
create_token(email) == [sub |-> email, signed |-> TRUE]

\* _get_email_from_token.  header is <<>> without a Bearer token, else <<token>>;
\* <<>> is None
get_email_from_token(header) ==
    IF header = <<>> THEN <<>>
    ELSE IF header[1].signed THEN header[1].sub ELSE <<>>

\* users.find_one({"email": email}): the documents found
find_one(collection, email) == {u \in collection : u.email = email}

AuthInit == HostIdle /\ call = NoCall /\ result = NoResult /\ written = <<>>
            /\ emitted = <<>> /\ sample_rate = InitialSampleRate /\ memo = NoMemo

\* the exchange recorded: database is FALSE when MongoDB did not answer
Exchange(route, request, database, status, body) ==
    [route |-> route, request |-> request, database |-> database,
     status |-> status, body |-> body]

\* POST /auth/signup
signup ==
    \E raw \in Emails, password \in Passwords, database \in BOOLEAN, salt \in Salts :
    \E email \in {lower(strip(raw))} :
        /\ requests < MaxAuthRequests
        /\ requests' = requests + 1
        /\ LET request == [email |-> raw, password |-> password]
               Answer(status, body) ==
                   /\ http' = Exchange("signup", request, database, status, body)
                   /\ UNCHANGED <<users, held>>
           IN  IF email = <<>> \/ password = ""
               THEN Answer(400, [detail |-> "Email and password are required"])
               ELSE IF Len(password) < 6
               THEN Answer(400, [detail |-> "Password must be at least 6 characters"])
               ELSE IF ~database
               THEN Answer(503, [detail |-> "Database unavailable"])
               ELSE IF find_one(users, email) # {}
               THEN Answer(409, [detail |-> "Email already registered"])
               ELSE /\ users' = users \cup
                          {[email |-> email,
                            password_hash |-> generate_password_hash(password, salt)]}
                    /\ http' = Exchange("signup", request, database, 201,
                                        [access_token |-> create_token(email),
                                         token_type |-> "bearer"])
                    /\ held' = [credentials |-> held.credentials \cup {request},
                                tokens |-> held.tokens]
        /\ UNCHANGED <<analysis_progress, workers, disk, rooms, clients, handlers,
                       cancelled, key_errors, signups, indexes>>
        /\ UNCHANGED engineVars

\* POST /auth/login
login ==
    \E raw \in Emails, password \in Passwords, database \in BOOLEAN :
    \E email \in {lower(strip(raw))} :
        /\ requests < MaxAuthRequests
        /\ requests' = requests + 1
        /\ LET request == [email |-> raw, password |-> password]
               Answer(status, body) ==
                   /\ http' = Exchange("login", request, database, status, body)
                   /\ UNCHANGED held
           IN  IF email = <<>> \/ password = ""
               THEN Answer(400, [detail |-> "Email and password are required"])
               ELSE IF ~database
               THEN Answer(503, [detail |-> "Database unavailable"])
               ELSE IF \A user \in find_one(users, email) :
                           ~check_password_hash(user.password_hash, password)
               THEN Answer(401, [detail |-> "Invalid email or password"])
               ELSE /\ http' = Exchange("login", request, database, 200,
                                        [access_token |-> create_token(email),
                                         token_type |-> "bearer"])
                    /\ held' = [credentials |-> held.credentials,
                                tokens |-> held.tokens \cup
                                    {[token |-> create_token(email),
                                      request |-> request]}]
        /\ UNCHANGED <<analysis_progress, workers, disk, rooms, clients, handlers,
                       cancelled, key_errors, users, signups, indexes>>
        /\ UNCHANGED engineVars

\* the Authorization headers and email query parameters of a GET /auth/me: no
\* header, a token a login gave, or a token the service did not sign
MeRequests ==
    [header : {<<>>} \cup {<<t.token>> : t \in held.tokens}
                \cup {<<[sub |-> <<"a">>, signed |-> FALSE]>>},
     email : {<<>>, <<"A", " ">>}]

\* GET /auth/me
me ==
    \E request \in MeRequests, database \in BOOLEAN :
    \E from_token \in {get_email_from_token(request.header)} :
    \E email \in {IF from_token # <<>> THEN from_token
                  ELSE lower(strip(request.email))} :
        /\ requests < MaxAuthRequests
        /\ requests' = requests + 1
        /\ http' =
              IF email = <<>>
              THEN Exchange("me", request, database, 401, [detail |-> "Unauthorized"])
              ELSE IF ~database
              THEN Exchange("me", request, database, 503,
                            [detail |-> "Database unavailable"])
              ELSE IF find_one(users, email) = {}
              THEN Exchange("me", request, database, 200, [email |-> email])
              ELSE Exchange("me", request, database, 200,
                            [email |-> (CHOOSE u \in find_one(users, email) : TRUE).email])
        /\ UNCHANGED <<analysis_progress, workers, disk, rooms, clients, handlers,
                       cancelled, key_errors, users, held, signups, indexes>>
        /\ UNCHANGED engineVars

AuthNext == signup \/ login \/ me

SpecAuth == AuthInit /\ [][AuthNext]_vars

----------------------------------------------------------------------------
(* SpecSignup: POST /auth/signup handled by concurrent threads, one database
   operation per step *)

\* the number of signup requests in progress at once
MaxSignups == 2
SignupIds == 1..MaxSignups

\* the emails and passwords of the concurrent requests: three spellings of
\* one address, another address, none
SignupEmails == {<<"a">>, <<"A">>, <<" ", "a">>, <<"a", "A">>, <<>>}
SignupPasswords == {"12345", "test123", "Test123"}

\* a request that has not arrived; status 0: no response yet
IdleSignup ==
    [pc |-> "idle", raw |-> <<>>, email |-> <<>>, password |-> "",
     stored_on_arrival |-> FALSE, status |-> 0]

\* an empty collection without index, no request in progress
SignupInit ==
    /\ call = NoCall /\ result = NoResult /\ written = <<>> /\ emitted = <<>>
    /\ sample_rate = InitialSampleRate /\ memo = NoMemo
    /\ analysis_progress = <<>> /\ workers = <<>> /\ disk = {} /\ rooms = <<>>
    /\ clients = <<>> /\ handlers = <<>> /\ requests = 0 /\ cancelled = <<>>
    /\ key_errors = {}
    /\ http = NoExchange /\ users = {}
    /\ held = [credentials |-> {}, tokens |-> {}]
    /\ signups = [r \in SignupIds |-> IdleSignup]
    /\ indexes = {}

\* the handler of request r answers
Respond(r, database, status, body) ==
    /\ signups' = [signups EXCEPT ![r].pc = "done", ![r].status = status]
    /\ http' = Exchange("signup", [email |-> signups[r].raw,
                                   password |-> signups[r].password],
                        database, status, body)

\* users.insert_one under the unique indexes: DuplicateKeyError when an
\* indexed field of the document is already stored
DuplicateKey(collection, unique, doc) ==
    "email" \in unique /\ find_one(collection, doc.email) # {}

\* users.create_index("email", unique=True): the index is built unless the
\* server does not answer or two stored documents share an email
create_index(collection, unique, answers) ==
    IF answers /\ \A u, v \in collection : u.email = v.email => u = v
    THEN unique \cup {"email"}
    ELSE unique

\* signup, lines 39-48: the request is read and validated
signup_receive ==
    \E r \in SignupIds, raw \in SignupEmails, password \in SignupPasswords :
    \E email \in {lower(strip(raw))} :
        /\ signups[r].pc = "idle"
        /\ \A q \in SignupIds : q < r => signups[q].pc # "idle"
        /\ LET arrived == [pc |-> "create_index", raw |-> raw, email |-> email,
                           password |-> password,
                           stored_on_arrival |-> find_one(users, email) # {},
                           status |-> 0]
               Refuse(detail) ==
                   /\ signups' = [signups EXCEPT
                                     ![r] = [arrived EXCEPT !.pc = "done",
                                                            !.status = 400]]
                   /\ http' = Exchange("signup",
                                       [email |-> raw, password |-> password],
                                       TRUE, 400, [detail |-> detail])
           IN  IF email = <<>> \/ password = ""
               THEN Refuse("Email and password are required")
               ELSE IF Len(password) < 6
               THEN Refuse("Password must be at least 6 characters")
               ELSE /\ signups' = [signups EXCEPT ![r] = arrived]
                    /\ UNCHANGED http
        /\ UNCHANGED <<users, held, indexes>>
        /\ UNCHANGED <<engineVars, hostVars>>

\* signup, lines 53-56: create_index, its exception swallowed
signup_create_index ==
    \E r \in SignupIds, answers \in BOOLEAN :
        /\ signups[r].pc = "create_index"
        /\ indexes' = create_index(users, indexes, answers)
        /\ signups' = [signups EXCEPT ![r].pc = "find_one"]
        /\ UNCHANGED <<http, users, held>>
        /\ UNCHANGED <<engineVars, hostVars>>

\* signup, lines 58-62: find_one, 503 when it raises, 409 when it finds a user
signup_find_one ==
    \E r \in SignupIds, answers \in BOOLEAN :
        /\ signups[r].pc = "find_one"
        /\ IF ~answers
           THEN Respond(r, FALSE, 503, [detail |-> "Database unavailable"])
           ELSE IF find_one(users, signups[r].email) # {}
           THEN Respond(r, TRUE, 409, [detail |-> "Email already registered"])
           ELSE /\ signups' = [signups EXCEPT ![r].pc = "insert_one"]
                /\ UNCHANGED http
        /\ UNCHANGED <<users, held, indexes>>
        /\ UNCHANGED <<engineVars, hostVars>>

\* signup, lines 64-77: insert_one, 503 when it raises (DuplicateKeyError is a
\* PyMongoError), else the token and 201
signup_insert_one ==
    \E r \in SignupIds, answers \in BOOLEAN, salt \in Salts :
    \E user_doc \in {[email |-> signups[r].email,
                      password_hash |->
                          generate_password_hash(signups[r].password, salt),
                      id |-> r]} :
        /\ signups[r].pc = "insert_one"
        /\ IF ~answers \/ DuplicateKey(users, indexes, user_doc)
           THEN /\ Respond(r, answers, 503, [detail |-> "Database unavailable"])
                /\ UNCHANGED <<users, held>>
           ELSE /\ users' = users \cup {user_doc}
                /\ Respond(r, TRUE, 201,
                           [access_token |-> create_token(signups[r].email),
                            token_type |-> "bearer"])
                /\ held' = [credentials |-> held.credentials \cup
                                {[email |-> signups[r].raw,
                                  password |-> signups[r].password]},
                            tokens |-> held.tokens]
        /\ UNCHANGED indexes
        /\ UNCHANGED <<engineVars, hostVars>>

SignupNext ==
    \/ signup_receive
    \/ signup_create_index
    \/ signup_find_one
    \/ signup_insert_one

SpecSignup == SignupInit /\ [][SignupNext]_vars

----------------------------------------------------------------------------
(* Properties of the detection calls and of the host *)

\* the fields every returned record is to carry
RequiredFields ==
    {"isDeepfake", "confidence", "processingTime", "anomalies", "mediaType",
     "timestamp", "modelUsed"}

\* a call through one of the three entry points has returned
EntryReturned == HasResult /\ call.modality \in {"image", "audio", "video"}

\* the returned record is a scored one: the try block did not raise
Scored == EntryReturned /\ "error" \notin DOMAIN result

Percent(p) == Rat(p, 1)

\* the set of anomaly types of a record
AnomalyTypes(r) == {r.anomalies[i].type : i \in 1..Len(r.anomalies)}

\* C1: for every call of analyze_image, analyze_video or analyze_audio, on the
\* scored and on the fallback path, the returned confidence lies in [0, 100]
\* and isDeepfake is a boolean.
C1_ConfidenceInRange ==
    EntryReturned =>
        /\ result.isDeepfake \in BOOLEAN
        /\ result.confidence.den > 0
        /\ RatLeq(Rat(0, 1), result.confidence)
        /\ RatLeq(result.confidence, Rat(100000, 1))

\* a video call whose evidence would push the confidence past the cap: 15
\* over-smoothed, identical frames
C1_Witness ==
    /\ Scored
    /\ call.modality = "video"
    /\ result.isDeepfake
    /\ result.analyzedFrames = max_frames
    /\ RatEq(result.confidence, Rat(95000, 1))

\* the file of the call cannot be decoded
Undecodable ==
    \/ call.modality = "image" /\ ~call.input.decodable
    \/ call.modality = "audio" /\ ~call.input.loadable
    \/ call.modality = "video" /\ call.input.total_frames = 0

\* C2: for each of the three entry points, when the media file cannot be
\* decoded, the returned record has isDeepfake = false, confidence = 50.0 and
\* a non-empty error field.
C2_UndecodableGivesFallback ==
    (EntryReturned /\ Undecodable) =>
        /\ result.isDeepfake = FALSE
        /\ RatEq(result.confidence, Rat(50000, 1))
        /\ "error" \in DOMAIN result
        /\ result.error # ""

\* C3: every call to an entry point returns, and the returned record, scored
\* or fallback, in every modality, contains isDeepfake, confidence,
\* processingTime, anomalies, mediaType, timestamp and modelUsed.
C3_RecordComplete ==
    EntryReturned => RequiredFields \subseteq DOMAIN result

\* a sub-analysis of the call failed, on a file that can be decoded
SubAnalysisFailed ==
    \/ /\ call.modality = "image" /\ call.input.decodable
       /\ \/ call.input.features = <<>>
          \/ call.input.compression = <<>>
          \/ call.input.faces = <<>>
    \/ /\ call.modality = "audio" /\ call.input.loadable
       /\ \/ call.input.features = <<>>
          \/ call.input.voice = <<>>
          \/ call.input.synth = <<>>
    \/ /\ call.modality = "video" /\ call.input.total_frames > 0
       /\ call.input.readable_until > 0
       /\ \/ ~call.input.temporal_ok
          \/ ~call.input.faces_ok
          \/ \E i \in 1..Len(call.input.kinds) : ~call.input.kinds[i].analysable

\* every sub-analysis of the call failed: the verdict rests on defaults alone
OnlyDefaults ==
    \/ /\ call.modality = "image"
       /\ call.input.features = <<>>
       /\ call.input.compression = <<>>
       /\ call.input.faces = <<>>
    \/ /\ call.modality = "audio"
       /\ call.input.features = <<>>
       /\ call.input.voice = <<>>
       /\ call.input.synth = <<>>
    \/ /\ call.modality = "video"
       /\ ~call.input.temporal_ok
       /\ ~call.input.faces_ok
       /\ \A i \in 1..Len(call.input.kinds) : ~call.input.kinds[i].analysable

\* C4: when a sub-analysis fails inside a call it is replaced by its neutral
\* default, the call still returns a scored result without an error field,
\* and the defaults trigger no suspicion rule and add no anomaly.
C4_NeutralDefaults ==
    (EntryReturned /\ call.sink # "raises" /\ SubAnalysisFailed) =>
        /\ "error" \notin DOMAIN result
        /\ OnlyDefaults => /\ result.anomalies = <<>>
                           /\ ~result.isDeepfake

\* the call just made repeats the remembered one, up to the sink
SameInput == HasMemo /\ HasResult /\ memo.call.modality = call.modality
             /\ memo.call.input = call.input

\* C5: if a progress sink is supplied but delivering a progress update fails,
\* the call returns the same isDeepfake, confidence and anomalies as the same
\* call made without a sink.
C5_SinkFailureHarmless ==
    (SameInput /\ memo.call.sink = "none" /\ call.sink = "raises") =>
        /\ result.isDeepfake = memo.result.isDeepfake
        /\ RatEq(result.confidence, memo.result.confidence)
        /\ result.anomalies = memo.result.anomalies

\* the events of thread w emitted into its room after position k
ReportedAfter(w, k) ==
    {i \in (k + 1)..Len(rooms[workers[w].session_id]) :
        /\ rooms[workers[w].session_id][i].analysis = w
        /\ rooms[workers[w].session_id][i].event = "analysis_complete"}

\* C6: after cancel_analysis has been handled for a session whose analysis is
\* in flight, no analysis_complete event is emitted to that session for that
\* analysis.
C6_NoResultAfterCancel ==
    \A w \in DOMAIN workers : cancelled[w] > 0 => ReportedAfter(w, cancelled[w]) = {}

\* the written values are v, in order
WrittenIs(v) ==
    /\ Len(written) = Len(v)
    /\ \A i \in 1..Len(v) : RatEq(written[i], Percent(v[i]))

\* C7: in a successful call with a progress sink the progress values written
\* are: image 20, 50, 80, 100; audio 20, 40, 70, 100; video 15, 30, one value
\* in [30, 60) per analysed frame, 70, 85, 100; the sequence is non-decreasing
\* and its last value is 100.
C7_ProgressSequence ==
    (Scored /\ call.sink = "ok") =>
        /\ call.modality = "image" => WrittenIs(<<20, 50, 80, 100>>)
        /\ call.modality = "audio" => WrittenIs(<<20, 40, 70, 100>>)
        /\ call.modality = "video" =>
              LET n == result.analyzedFrames
              IN  /\ Len(written) = n + 5
                  /\ RatEq(written[1], Percent(15))
                  /\ RatEq(written[2], Percent(30))
                  /\ \A k \in 1..n : /\ RatLeq(Percent(30), written[2 + k])
                                     /\ RatLess(written[2 + k], Percent(60))
                  /\ RatEq(written[n + 3], Percent(70))
                  /\ RatEq(written[n + 4], Percent(85))
        /\ \A i \in 1..(Len(written) - 1) : RatLeq(written[i], written[i + 1])
        /\ written # <<>>
        /\ RatEq(written[Len(written)], Percent(100))

\* a video call with a sink that analysed as many frames as are ever kept
C7_Witness ==
    /\ Scored /\ call.sink = "ok" /\ call.modality = "video"
    /\ result.analyzedFrames = max_frames
    /\ Len(written) = max_frames + 5
    /\ RatEq(written[max_frames + 2], Percent(58))

\* C8: every progress update delivered to the sink during a detection call
\* carries an integer progress value in 0..100 together with a message.
C8_UpdatesWellFormed ==
    EntryReturned =>
        \A i \in 1..Len(emitted) :
            /\ "message" \in DOMAIN emitted[i]
            /\ RatIsInt(emitted[i].progress)
            /\ RatLeq(Percent(0), emitted[i].progress)
            /\ RatLeq(emitted[i].progress, Percent(100))

Count(s, x) == Cardinality({i \in 1..Len(s) : s[i] = x})

\* b lists every entry of a, as often, and exactly one entry more
OneMore(a, b) ==
    /\ Len(b) = Len(a) + 1
    /\ \A i \in 1..Len(a) : Count(a, a[i]) <= Count(b, a[i])

\* the image rule evaluations that differ from the call's in one feature, in
\* the compression values or in the number of face issues
ImageNeighbours(input) ==
    LET f == input.features[1]
        c == input.compression[1]
        n == input.faces[1]
        Eval(f2, c2, n2) == ImageRules(<<f2>>, c2.avg, c2.var, n2)
    IN  {Eval([f EXCEPT ![k] = v], c, n) :
            k \in {"edge_density"}, v \in {29, 30}}
        \cup {Eval([f EXCEPT ![k] = v], c, n) :
                k \in {"texture_variance"}, v \in {79, 80}}
        \cup {Eval([f EXCEPT ![k] = v], c, n) :
                k \in {"color_uniformity", "freq_variance"}, v \in {9, 10}}
        \cup {Eval(f, c2, n) : c2 \in CompressionGrid}
        \cup {Eval(f, c, n + 1)}

\* the audio rule evaluations that differ from the call's in one feature or by
\* one more voice issue or synthesis artifact
AudioNeighbours(input, sr) ==
    LET f == input.features[1]
        vi == analyze_voice_naturalness(input.voice[1], input.seconds * sr, sr)
        sa == detect_synthesis_patterns(input.synth[1])
    IN  {AudioRules(<<[f EXCEPT ![k] = v]>>, vi, sa) :
            k \in {"zcr_std", "mfcc_0_std"}, v \in {4, 5}}
        \cup {AudioRules(<<[f EXCEPT ![k] = v]>>, vi, sa) :
                k \in {"rms_std"}, v \in {49, 50}}
        \cup {AudioRules(<<[f EXCEPT ![k] = v]>>, vi, sa) :
                k \in {"spectral_centroid_std"}, v \in {199, 200}}
        \cup {AudioRules(<<f>>, Append(vi, Anomaly("Frequency artifacts", "high")), sa),
              AudioRules(<<f>>, vi, Append(sa, Anomaly("Repetitive patterns", "high")))}

\* the frame analyses that differ from the call's in one measurement
FrameNeighbours(frame) ==
    {analyze_single_frame_lightweight([frame EXCEPT ![k] = v]) :
        k \in {"blur_score"}, v \in {99, 100}}
    \cup {analyze_single_frame_lightweight([frame EXCEPT ![k] = v]) :
            k \in {"edge_density"}, v \in {79, 80}}
    \cup {analyze_single_frame_lightweight([frame EXCEPT ![k] = v]) :
            k \in {"color_uniformity"}, v \in {14, 15}}
    \cup {analyze_single_frame_lightweight([frame EXCEPT ![k] = v]) :
            k \in {"brightness"}, v \in {49, 50, 200, 201}}
    \cup {analyze_single_frame_lightweight([frame EXCEPT ![k] = v]) :
            k \in {"brightness_std"}, v \in {29, 30}}

\* the call is a rule evaluation all of whose sub-analyses delivered
FullImage == /\ call.modality = "image" /\ Scored
             /\ call.input.features # <<>>
             /\ call.input.compression # <<>>
             /\ call.input.faces # <<>>
FullAudio == /\ call.modality = "audio" /\ Scored
             /\ call.input.features # <<>>
             /\ call.input.voice # <<>>
             /\ call.input.synth # <<>>
FullFrame == /\ call.modality = "frame" /\ "failed" \in DOMAIN result
             /\ call.input.analysable

\* C10: in each modality, for any two rule evaluations where the second
\* triggers every rule condition of the first plus one more (or one more
\* issue or artifact), the raw suspicion score of the second is greater than
\* or equal to that of the first.
C10_ScoreMonotone ==
    /\ FullImage =>
          \A second \in ImageNeighbours(call.input) :
              OneMore(SelectSeq(result.anomalies, LAMBDA a : a.severity # "info"),
                      second.anomalies)
                  => second.score >= result.features.suspicious_score_raw
    /\ FullAudio =>
          \A second \in AudioNeighbours(call.input, sample_rate) :
              OneMore(result.anomalies, second.anomalies)
                  => second.score >= result.features.suspicious_score
    /\ FullFrame =>
          \A second \in FrameNeighbours(call.input) :
              OneMore(result.reasons, second.reasons) => second.score >= result.score

\* an image evaluation with a neighbour that has one more face issue and a
\* strictly higher score
C10_Witness ==
    /\ FullImage
    /\ call.input.faces[1] = 1
    /\ \E second \in ImageNeighbours(call.input) :
          /\ OneMore(SelectSeq(result.anomalies, LAMBDA a : a.severity # "info"),
                     second.anomalies)
          /\ Count(second.anomalies, Anomaly("Facial inconsistency", "high")) = 2
          /\ second.score > result.features.suspicious_score_raw

\* a scored image with healthy texture variance and a natural edge density
NaturalImage ==
    /\ FullImage
    /\ call.input.features[1].texture_variance >= 250
    /\ call.input.features[1].edge_density >= 40
    /\ call.input.features[1].edge_density <= 250

GreenNotes(r) ==
    {r.anomalies[i].description :
        i \in {j \in 1..Len(r.anomalies) : r.anomalies[j].type = "Green indicator"}}

\* the green conditions on edge density, texture variance, color uniformity
\* and frequency variance
StrongGreenNotes ==
    {"Edge density in natural range", "Healthy texture variance",
     "Natural color variability", "Balanced frequency spectrum"}

\* a near-flat, low-contrast image
LowContrastImage ==
    /\ FullImage
    /\ call.input.features[1].brightness_std < 20
    /\ call.input.features[1].edge_density < 30
    /\ call.input.features[1].texture_variance < 80

\* C12: every image with brightness_std < 20, edge_density < 0.03 and
\* texture_variance < 80 gets a raw suspicion score greater than 0 and, when
\* none of the green conditions on edge density, texture variance, color
\* uniformity or frequency variance holds, is classified isDeepfake = true.
C12_FlatImageIsFake ==
    LowContrastImage =>
        /\ result.features.suspicious_score_raw > 0
        /\ GreenNotes(result) \cap StrongGreenNotes = {} => result.isDeepfake

\* an audio clip holding at least two full 2-second windows, whose windows all
\* have the same autocorrelation peak, hence the same pitch estimate
EqualPitchClip ==
    /\ FullAudio
    /\ call.input.seconds \div 2 >= 2
    /\ Len(call.input.voice[1].peak_idx) = 1

\* C13: an audio clip with at least two full 2-second windows whose per-window
\* pitch estimates are all equal is reported with an 'Unnatural pitch
\* consistency' anomaly of severity high.
C13_EqualPitchReported ==
    EqualPitchClip =>
        \E i \in 1..Len(result.anomalies) :
            /\ result.anomalies[i].type = "Unnatural pitch consistency"
            /\ result.anomalies[i].severity = "high"

\* the frames the detector sampled from the stream of the call
SampledFrames ==
    [j \in 1..result.analyzedFrames |->
        At(call.input.kinds, result.frameAnalysis[j].frame)]

\* a scored video whose N >= 2 sampled frames are identical and whose temporal
\* analysis ran to its end
IdenticalFrames ==
    /\ call.modality = "video" /\ Scored
    /\ result.analyzedFrames >= 2
    /\ call.input.temporal_ok
    /\ \A j \in 1..result.analyzedFrames : SampledFrames[j] = SampledFrames[1]

\* C14: for a video whose N >= 2 sampled frames are identical the record lists
\* exactly N - 1 'Static content' anomalies, one per consecutive pair, and no
\* 'Sudden change' anomaly, and deepfakeFrameRatio is 1 when the score of the
\* frame exceeds 0.4 and 0 otherwise.
C14_IdenticalFramesStatic ==
    IdenticalFrames =>
        /\ Count([i \in 1..Len(result.anomalies) |-> result.anomalies[i].type],
                 "Static content") = result.analyzedFrames - 1
        /\ "Sudden change" \notin AnomalyTypes(result)
        /\ IF analyze_single_frame_lightweight(SampledFrames[1]).score > 400
           THEN RatEq(result.deepfakeFrameRatio, Rat(1, 1))
           ELSE RatEq(result.deepfakeFrameRatio, Rat(0, 1))

\* C14 witness: fifteen identical over-smoothed frames, fourteen static pairs
C14_Witness ==
    /\ IdenticalFrames
    /\ result.analyzedFrames = max_frames
    /\ Count([i \in 1..Len(result.anomalies) |-> result.anomalies[i].type],
             "Static content") = max_frames - 1
    /\ SampledFrames[1].blur_score < 100
    /\ RatEq(result.deepfakeFrameRatio, Rat(1, 1))

\* the inputs of the verdict as the detector sees them: a feature the
\* extraction did not deliver has the default of the line that reads it
SeenCompression ==
    IF call.input.compression = <<>> THEN CompressionDefault
    ELSE call.input.compression[1]
SeenFaceIssues == IF call.input.faces = <<>> THEN 0 ELSE call.input.faces[1]

\* the reference raw suspicion of the image of the call, in thousandths
ReferenceRaw ==
    LET f == call.input.features
    IN  (IF Get(f, "edge_density", 150) < 30 THEN 180 ELSE 0)
        + (IF Get(f, "texture_variance", 500) < 80 THEN 150 ELSE 0)
        + (IF Get(f, "color_uniformity", 30) < 10 THEN 100 ELSE 0)
        + (IF Get(f, "freq_variance", 50) < 10 THEN 100 ELSE 0)
        + (IF SeenCompression.avg > 220 \/ SeenCompression.var > 120 THEN 120 ELSE 0)
        + 80 * SeenFaceIssues

\* the reference adjusted suspicion, in millionths: raw - 0.5 * green
ReferenceAdjusted ==
    Max(0, 1000 * ReferenceRaw - 500 * result.features.green_score)

\* C18: the image verdict equals the reference: raw = 0.18 [edge_density < 0.03]
\* + 0.15 [texture_variance < 80] + 0.10 [color_uniformity < 10]
\* + 0.10 [freq_variance < 1] + 0.12 [avg_compression > 0.22 or
\* compression_var > 0.12] + 0.08 per face issue; adjusted = max(0, raw - 0.5 *
\* green); isDeepfake iff adjusted > 0.8; confidence = min(55 + 45 * adjusted,
\* 92) when fake and min(90, 60 + 25 * green - 10 * adjusted) when real.
C18_ImageVerdictReference ==
    (call.modality = "image" /\ Scored) =>
        /\ result.features.suspicious_score_raw = ReferenceRaw
        /\ 1000 * result.features.suspicious_score = ReferenceAdjusted
        /\ result.isDeepfake <=> ReferenceAdjusted > 800000
        /\ RatEq(result.confidence,
                 IF ReferenceAdjusted > 800000
                 THEN Rat(Min(55000000 + 45 * ReferenceAdjusted, 92000000), 1000)
                 ELSE Rat(Min(90000000, 60000000 + 25000 * result.features.green_score
                                        - 10 * ReferenceAdjusted), 1000))

\* C18 witness: a fake image whose confidence is held at 92
C18_Witness ==
    /\ FullImage
    /\ result.isDeepfake
    /\ 55000 + 45 * result.features.suspicious_score > 92000
    /\ RatEq(result.confidence, Percent(92000))

\* the eight green conditions on the image of the call: whether each holds,
\* its weight in thousandths
GreenConditions ==
    LET f == call.input.features
        px == Max(1, Get(f, "width", 1)) * Max(1, Get(f, "height", 1))
    IN  << [holds |-> Get(f, "edge_density", 0) \in 40..250, weight |-> 250],
           [holds |-> Get(f, "texture_variance", 0) >= 250, weight |-> 250],
           [holds |-> Get(f, "color_uniformity", 0) \in 15..60, weight |-> 150],
           [holds |-> Get(f, "freq_variance", 0) \in 15..200, weight |-> 150],
           [holds |-> Get(f, "brightness_std", 0) >= 20, weight |-> 100],
           [holds |-> SeenCompression.avg \in 30..200 /\ SeenCompression.var < 60,
            weight |-> 100],
           [holds |-> px >= 307200, weight |-> 50],
           [holds |-> SeenFaceIssues = 0, weight |-> 50] >>

\* the sum of the weights of the satisfied green conditions
GreenSum ==
    SumSeq([k \in 1..8 |-> IF GreenConditions[k].holds
                           THEN GreenConditions[k].weight ELSE 0])

\* C19: the green score equals min(0.8, sum of the weights of the satisfied
\* conditions among the eight), so it lies in [0, 0.8], and one note is
\* produced per satisfied condition.
C19_GreenScore ==
    (call.modality = "image" /\ Scored) =>
        /\ result.features.green_score = Min(800, GreenSum)
        /\ result.features.green_score \in 0..800
        /\ Count([i \in 1..Len(result.anomalies) |-> result.anomalies[i].type],
                 "Green indicator")
             = Cardinality({k \in 1..8 : GreenConditions[k].holds})

\* C19 witness: the satisfied conditions weigh more than 0.8, the score is 0.8
C19_Witness ==
    /\ FullImage
    /\ GreenSum = 1100
    /\ result.features.green_score = 800

\* the positions of the frames the record marks as suspicious
SuspiciousFrames ==
    SelectSeq([j \in 1..Len(result.frameAnalysis) |-> j],
              LAMBDA j : result.frameAnalysis[j].isDeepfake)

\* the number of anomalies of the record whose type is in types
IssueCount(types) ==
    Cardinality({i \in 1..Len(result.anomalies) : result.anomalies[i].type \in types})

TemporalIssueCount == IssueCount({"Sudden change", "Static content"})
FaceIssueCount ==
    IssueCount({"Face brightness consistency", "Face size inconsistency"})

\* the reference evidence boost, in points
ReferenceBoost == 5 * TemporalIssueCount + 3 * FaceIssueCount

\* the reference base confidence plus the boost, in thousandths of a point
ReferenceBoosted ==
    LET k == Len(SuspiciousFrames)
        total == SumSeq([i \in 1..k |->
                            result.frameAnalysis[SuspiciousFrames[i]].confidence])
    IN  IF k > 0 THEN Rat(total + 1000 * ReferenceBoost * k, k)
        ELSE Rat(50000 + 1000 * ReferenceBoost, 1)

\* the reference video verdict
ReferenceVideoFake ==
    \/ 10 * Len(SuspiciousFrames) > 4 * result.analyzedFrames
    \/ TemporalIssueCount > 2
    \/ FaceIssueCount > 1

\* C20: the video verdict equals the reference: ratio = suspicious frames /
\* analysed frames; isDeepfake iff ratio > 0.4 or more than 2 temporal issues or
\* more than 1 face issue; boost = 5 per temporal issue + 3 per face issue;
\* base = mean confidence of the suspicious frames, 50 when there is none;
\* confidence = min(base + boost, 95) when fake, max(75 - boost, 60) when real.
C20_VideoVerdictReference ==
    (call.modality = "video" /\ Scored) =>
        /\ RatEq(result.deepfakeFrameRatio,
                 Rat(Len(SuspiciousFrames), result.analyzedFrames))
        /\ result.isDeepfake <=> ReferenceVideoFake
        /\ RatEq(result.confidence,
                 IF ReferenceVideoFake
                 THEN IF RatLeq(ReferenceBoosted, Percent(95000))
                      THEN ReferenceBoosted ELSE Percent(95000)
                 ELSE Percent(Max(75000 - 1000 * ReferenceBoost, 60000)))

\* C20 witness: exactly 40% of the frames are suspicious, there is no other
\* evidence, and the video is real
C20_Witness ==
    /\ call.modality = "video" /\ Scored
    /\ 10 * Len(SuspiciousFrames) = 4 * result.analyzedFrames
    /\ Len(SuspiciousFrames) > 0
    /\ TemporalIssueCount <= 2
    /\ FaceIssueCount <= 1
    /\ ~result.isDeepfake

\* the step changes the progress entry of session s or emits into its room
Touched(s) ==
    \/ (s \in DOMAIN analysis_progress) # (s \in DOMAIN analysis_progress')
    \/ /\ s \in DOMAIN analysis_progress
       /\ s \in DOMAIN analysis_progress'
       /\ analysis_progress'[s] # analysis_progress[s]
    \/ rooms'[s] # rooms[s]

\* the step can be one taken for session s: by a worker started for s, by a
\* handler running for s, by the connect or disconnect of s, or by a request
\* that s may send
ActsFor(s) ==
    \/ \E w \in Workers : workers[w].session_id = s /\ workers'[w] # workers[w]
    \/ handlers'[s] # handlers[s]
    \/ clients'[s] # clients[s]
    \/ MayRequest(s) /\ requests' # requests

\* C16: handlers and workers acting for one client session never modify or
\* delete the progress entry of another session and never emit into another
\* session's room.
C16_SessionsIsolated == [][\A s \in Sessions : Touched(s) => ActsFor(s)]_vars

\* C15: every caller that materializes a local media file has deleted it by
\* the time it finishes handling the item, on every exit path: no file created
\* for a request of POST /analyze or POST /batch-analyze is on the disk when
\* the response is given.
C15_TemporaryFilesDeleted ==
    http.route \in {"analyze", "batch-analyze"} => http.created \cap disk = {}

\* two characters are the same letter, in whichever case
SameLetter(x, y) == x = y \/ {x, y} = {"a", "A"}

\* v is e in some letter case, with whitespace added around it
IsVariant(e, v) ==
    \E l \in 0..Len(v) :
        /\ l + Len(e) <= Len(v)
        /\ \A i \in 1..Len(v) :
              IF i > l /\ i <= l + Len(e) THEN SameLetter(v[i], e[i - l])
              ELSE v[i] \in Whitespace

\* n is e lower-cased and trimmed
LowerTrimmed(n, e) ==
    /\ IsVariant(n, e)
    /\ \A i \in 1..Len(n) : n[i] # "A"
    /\ n = <<>> \/ (n[1] \notin Whitespace /\ n[Len(n)] \notin Whitespace)

\* the credentials of a successful signup that the request's credentials are
\* a variant of: the same password, the email in some case and padding
SignedUpAs(request) ==
    {c \in held.credentials :
        IsVariant(c.email, request.email) /\ c.password = request.password}

\* the logins whose token the last request presented
LoginsOf(header) == {t \in held.tokens : header = <<t.token>>}

\* C17: after a signup succeeded for email e and password p, login with e in
\* any letter case and with surrounding whitespace, and p, returns 200 with an
\* access token, and GET /auth/me with that token returns 200 with the email
\* equal to e lower-cased and trimmed (the database answering both requests).
C17_LoginAfterSignup ==
    /\ (http.route = "login" /\ http.database /\ SignedUpAs(http.request) # {})
          => http.status = 200 /\ "access_token" \in DOMAIN http.body
    /\ (http.route = "me" /\ http.database)
          => \A t \in LoginsOf(http.request.header) :
             \A c \in SignedUpAs(t.request) :
                 http.status = 200 /\ LowerTrimmed(http.body.email, c.email)

\* C17 witness: signed up as one spelling, logged in as another, and the
\* profile was fetched with the token of that login
C17_Witness ==
    /\ http.route = "me" /\ http.status = 200
    /\ \E t \in LoginsOf(http.request.header) :
       \E c \in SignedUpAs(t.request) :
           /\ c.email # t.request.email
           /\ c.email # http.body.email
           /\ t.request.email # http.body.email

\* the reference score of the audio of the call, in thousandths: the four
\* feature rules, 0.1 per naturalness issue, 0.15 per synthesis artifact
ReferenceAudioScore ==
    LET f == call.input.features
    IN  (IF Get(f, "zcr_std", 10) < 5 THEN 200 ELSE 0)
        + (IF Get(f, "rms_std", 100) < 50 THEN 150 ELSE 0)
        + (IF Get(f, "spectral_centroid_std", 500) < 200 THEN 150 ELSE 0)
        + (IF Get(f, "mfcc_0_std", 10) < 5 THEN 200 ELSE 0)
        + 100 * result.inconsistencyCount + 150 * result.artifactCount

\* C21: the audio verdict equals the reference: score = 0.2 [zcr_std < 0.005]
\* + 0.15 [rms_std < 0.05] + 0.15 [spectral_centroid_std < 200]
\* + 0.2 [mfcc_0_std < 5] + 0.1 per naturalness issue + 0.15 per synthesis
\* artifact; isDeepfake iff score > 0.5; confidence = min(65 + 30 * score, 95)
\* when fake and max(75 - 25 * score, 60) when real.
C21_AudioVerdictReference ==
    (call.modality = "audio" /\ Scored) =>
        /\ result.features.suspicious_score = ReferenceAudioScore
        /\ result.isDeepfake <=> ReferenceAudioScore > 500
        /\ RatEq(result.confidence,
                 IF ReferenceAudioScore > 500
                 THEN Percent(Min(65000 + 30 * ReferenceAudioScore, 95000))
                 ELSE Percent(Max(75000 - 25 * ReferenceAudioScore, 60000)))

\* C21 witness: a real audio whose score is exactly 0.5, confidence 62.5
C21_Witness ==
    /\ FullAudio
    /\ result.features.suspicious_score = 500
    /\ ~result.isDeepfake
    /\ RatEq(result.confidence, Percent(62500))

\* the two filler anomalies
FillerTypes == {"Visual inconsistency", "Processing artifacts"}

\* the anomalies of the record other than the fillers: those collected
CollectedCount == Len(result.anomalies) - IssueCount(FillerTypes)

\* C22: a video result with isDeepfake = true carries at least 2 anomalies: the
\* two fillers ('Visual inconsistency', 'Processing artifacts') are appended,
\* once each and last, exactly when the video is fake and fewer than 2
\* anomalies were collected, and 'High suspicious frame ratio' is appended, once,
\* exactly when the ratio of suspicious frames exceeds 0.5.
C22_FakeVideoHasTwoAnomalies ==
    (call.modality = "video" /\ Scored) =>
        /\ result.isDeepfake => Len(result.anomalies) >= 2
        /\ IF result.isDeepfake /\ CollectedCount < 2
           THEN /\ AnomalyTypes(result) \cap FillerTypes = FillerTypes
                          /\ IssueCount(FillerTypes) = 2
                /\ result.anomalies[Len(result.anomalies) - 1].type
                      = "Visual inconsistency"
                /\ result.anomalies[Len(result.anomalies)].type
                      = "Processing artifacts"
           ELSE IssueCount(FillerTypes) = 0
        /\ IssueCount({"High suspicious frame ratio"})
              = IF RatLess(Rat(1, 2), result.deepfakeFrameRatio) THEN 1 ELSE 0

\* C22 witness: a fake video with one collected anomaly and the two fillers
C22_Witness ==
    /\ call.modality = "video" /\ Scored
    /\ result.isDeepfake
    /\ CollectedCount = 1
    /\ Len(result.anomalies) = 3
    /\ RatEq(result.deepfakeFrameRatio, Rat(1, 2))

\* the reference score of the frame of the call, in thousandths
ReferenceFrameScore ==
    LET f == call.input
    IN  (IF f.blur_score < 100 THEN 300 ELSE 0)
        + (IF f.edge_density < 80 THEN 200 ELSE 0)
        + (IF f.color_uniformity < 15 THEN 200 ELSE 0)
        + (IF f.brightness < 50 \/ f.brightness > 200 THEN 100 ELSE 0)
        + (IF f.brightness_std < 30 THEN 200 ELSE 0)

\* C23: per-frame scoring equals the reference: score = 0.3 [blur < 100]
\* + 0.2 [edge_density < 0.08] + 0.2 [color_uniformity < 15]
\* + 0.1 [brightness < 50 or > 200] + 0.2 [brightness_std < 30]; the frame is
\* suspicious iff score > 0.4, so a score of exactly 0.4 is not suspicious;
\* confidence = min(60 + 35 * score, 90) when suspicious and
\* max(70 - 30 * score, 55) otherwise.
C23_FrameScoreReference ==
    (FullFrame /\ ~result.failed) =>
        /\ result.score = ReferenceFrameScore
        /\ result.is_suspicious <=> ReferenceFrameScore > 400
        /\ result.confidence =
              IF ReferenceFrameScore > 400
              THEN Min(60000 + 35 * ReferenceFrameScore, 90000)
              ELSE Max(70000 - 30 * ReferenceFrameScore, 55000)

\* C23 witness: a frame whose score is exactly 0.4: not suspicious, 58
C23_Witness ==
    /\ FullFrame /\ ~result.failed
    /\ result.score = 400
    /\ ~result.is_suspicious
    /\ result.confidence = 58000

\* a video call on a stream of at least one frame whose reads all succeed
ReadableStream ==
    /\ call.modality = "video" /\ EntryReturned
    /\ call.sink # "raises"
    /\ call.input.total_frames >= 1
    /\ call.input.readable_until >= call.input.total_frames

\* the sampling interval of the reference: max(1, total_frames // 15)
ReferenceInterval == Max(1, call.input.total_frames \div 15)

\* C24: for a stream of total_frames >= 1 whose reads all succeed, the sampled
\* indices are 0, interval, 2 * interval, ... with interval =
\* max(1, total_frames // 15), every index is below total_frames, between 1
\* and 15 frames are sampled, and the unsampled tail after the last sampled
\* frame is shorter than 2 * interval; when no frame is read the call returns
\* the fallback result.
C24_SamplesSpanStream ==
    /\ ReadableStream =>
          /\ Scored
          /\ result.analyzedFrames \in 1..15
          /\ \A j \in 1..result.analyzedFrames :
                /\ result.frameAnalysis[j].frame = (j - 1) * ReferenceInterval
                /\ result.frameAnalysis[j].frame < call.input.total_frames
          /\ call.input.total_frames - 1
                - result.frameAnalysis[result.analyzedFrames].frame
                < 2 * ReferenceInterval
    /\ (call.modality = "video" /\ EntryReturned
        /\ (call.input.total_frames = 0 \/ call.input.readable_until = 0))
          => "error" \in DOMAIN result

\* a compression analysis has been made
CompressionAnalysed == call.modality = "compression" /\ "visited" \in DOMAIN result

\* every complete 8x8 block of the image of the call, by its top left corner
CompleteBlocks ==
    {<<8 * i, 8 * j>> : i \in 0..(call.input.h \div 8 - 1),
                        j \in 0..(call.input.w \div 8 - 1)}

\* the ratios of the visited blocks with non-zero total energy, row by row
ReferenceRatios ==
    LET Ratio(b) == BlockRatio(call.input, b[1], b[2])
        Before(a, b) == a[1] < b[1] \/ (a[1] = b[1] /\ a[2] < b[2])
        scored == {b \in result.visited : Ratio(b) >= 0}
        Rank(b) == Cardinality({a \in scored : Before(a, b)}) + 1
    IN  [k \in 1..Cardinality(scored) |-> Ratio(CHOOSE b \in scored : Rank(b) = k)]

\* C25: the compression analysis covers every complete 8x8 block: for an image
\* of height h and width w the number of blocks visited is
\* floor(h/8) * floor(w/8), the blocks do not overlap, and the mean and the
\* variance returned are those of the ratios of all visited blocks with
\* non-zero total energy.
C25_EveryBlockVisited ==
    CompressionAnalysed =>
        /\ Cardinality(result.visited)
              = (call.input.h \div 8) * (call.input.w \div 8)
        /\ result.visited = CompleteBlocks
        /\ \A a, b \in result.visited :
              a # b => Abs(a[1] - b[1]) >= 8 \/ Abs(a[2] - b[2]) >= 8
        /\ result.scores = ReferenceRatios
        /\ ReferenceRatios # <<>> =>
              /\ RatEq(result.avg_compression[1],
                       Rat(SumSeq(ReferenceRatios), Len(ReferenceRatios)))
              /\ RatEq(result.compression_var[1],
                       Rat(VarTimesN2(ReferenceRatios),
                           Len(ReferenceRatios) * Len(ReferenceRatios)))

\* the terminal events of the analysis run by thread w, over all rooms
TerminalEvents(w) ==
    {<<s, i>> \in Sessions \X (1..(MaxRequests + 12 + max_frames)) :
        /\ i <= Len(rooms[s])
        /\ rooms[s][i].analysis = w
        /\ rooms[s][i].event \in {"analysis_complete", "analysis_error"}}

\* C26: for every valid start_analysis request the worker emits exactly one
\* terminal event, analysis_complete or analysis_error, into the room of the
\* session: never two at any time, and one once the worker has ended, on
\* every path.
C26_OneTerminalEvent ==
    workers # <<>> =>
        \A w \in Workers :
            /\ Cardinality(TerminalEvents(w)) <= 1
            /\ \A t \in TerminalEvents(w) : t[1] = workers[w].session_id
            /\ workers[w].pc = "done" => Cardinality(TerminalEvents(w)) = 1

\* C26 witness: a worker ended after an unsupported media type, one
\* analysis_error in the room of its session
C26_Witness ==
    /\ workers # <<>>
    /\ \E w \in Workers :
          /\ workers[w].pc = "done"
          /\ workers[w].media_type = "pdf"
          /\ \E t \in TerminalEvents(w) :
                /\ rooms[t[1]][t[2]].event = "analysis_error"
                /\ rooms[t[1]][t[2]].payload = <<"UNSUPPORTED_MEDIA_TYPE">>

\* C27: analysis_started is emitted to the session before any
\* progress_update, analysis_complete or analysis_error of that analysis,
\* under every interleaving of the handler with the worker thread.
C27_StartedComesFirst ==
    rooms # <<>> =>
        \A s \in Sessions : \A i \in 1..Len(rooms[s]) :
            rooms[s][i].analysis # 0 =>
                \E j \in 1..(i - 1) : rooms[s][j].event = "analysis_started"

\* C28: under every interleaving of the worker's final cleanup with
\* cancel_analysis and disconnect for the same session, no deletion of the
\* progress entry is attempted on an absent key, and once the worker has
\* ended and no other worker runs for the session, analysis_progress holds no
\* entry for it.
C28_CleanupIsSafe ==
    workers # <<>> =>
        /\ key_errors = {}
        /\ \A s \in Sessions :
              (/\ \E w \in Workers : workers[w].pc = "done" /\ workers[w].session_id = s
               /\ \A w \in Workers : InFlight(w) => workers[w].session_id # s)
              => s \notin DOMAIN analysis_progress

\* C29: an image for which the face check reports no issue (or fails) is
\* never classified as deepfake: its raw score is at most 0.65, its adjusted
\* score at most 0.8; an image classified as deepfake has at least 2 face
\* issues.
C29_NoFaceIssueNoDeepfake ==
    (call.modality = "image" /\ EntryReturned) =>
        /\ (Scored /\ SeenFaceIssues = 0) =>
              /\ result.features.suspicious_score_raw <= 650
              /\ result.features.suspicious_score <= 800
        /\ SeenFaceIssues = 0 => ~result.isDeepfake
        /\ result.isDeepfake => SeenFaceIssues >= 2

\* C29 witness: an image without face issues on which all five other rules
\* fire, raw score 0.65, classified as real
C29_Witness ==
    /\ FullImage
    /\ SeenFaceIssues = 0
    /\ result.features.suspicious_score_raw = 650
    /\ ~result.isDeepfake

\* the normalized emails of the signup requests
SignupAddresses == {lower(strip(raw)) : raw \in SignupEmails} \ {<<>>}

\* C30: for any interleaving of signup requests that carry the same
\* normalized email, at most one returns 201 and at most one user document
\* with that email is stored; a signup for an email that is already stored
\* when it arrives returns 409 (when the database answers) and stores nothing.
C30_OneSignupPerEmail ==
    signups # <<>> =>
        /\ \A e \in SignupAddresses :
              /\ Cardinality({r \in SignupIds : /\ signups[r].email = e
                                                /\ signups[r].status = 201}) <= 1
              /\ Cardinality(find_one(users, e)) <= 1
        /\ \A r \in SignupIds :
              (/\ signups[r].pc = "done"
               /\ signups[r].stored_on_arrival
               /\ signups[r].status \notin {400, 503})
              => /\ signups[r].status = 409
                 /\ \A u \in users : u.id # r

====
